---- MODULE Spec2Model ----
(***************************************************************************)
(* Model of the scoring and filtering core of UKPropertyTrawler            *)
(* (src/trawler.py) over Property records (src/property_model.py).         *)
(*                                                                         *)
(* Python values are encoded as follows.                                   *)
(*   Optional[T]   : <<>> is None, <<x>> is the value x.                   *)
(*   dict          : a function whose DOMAIN is the set of keys present;   *)
(*                   an omitted key is not in the DOMAIN, a key given      *)
(*                   with the value None maps to <<>>.                     *)
(*   float         : an exact fraction <<n, d>> in lowest terms, d > 0     *)
(*                   (binary rounding of the float is not modelled).       *)
(*   float('inf')  : the integer Inf, larger than every number the model   *)
(*                   draws.                                                *)
(*   str           : a TLA+ string.                                        *)
(***************************************************************************)
EXTENDS Integers, Sequences, FiniteSets, TLC

VARIABLES
    heap,        \* the Property objects: object id -> record of fields
    properties,  \* the caller's list handed to filter_properties (object ids)
    filters,     \* the filters dict of the last call
    filtered,    \* what the last filter_properties call returned (object ids)
    calls,       \* number of filter_properties calls made so far
    prop,        \* the Property of the last direct calculate_match_score call
    terms,       \* what each section of that call added to score
    score,       \* what that call returned
    rerun,       \* the last filter_properties call was handed the list the
                 \* call before it returned
    all_text,    \* the text handed to the extractors
    extracted,   \* what each extractor returned for it
    fuzzy,       \* a direct call of _fuzzy_match_keyword: its arguments and
                 \* what it returned
    listing,     \* the listing the loop of scrape_spareroom is at: the text
                 \* fragments found in its markup
    prop_dict,   \* what a call of Property.to_dict returned
    requests,    \* the search_params of each POST /api/run-trawler request
    threads,     \* the background thread of each request: where it is, the
                 \* file its open() gave it and what its main.py loaded
    temp_config_path,  \* the file temp_config.json in the working directory
    config,      \* the search_params of the config a run of main() loaded
    scrape_filters,  \* the filters argument of the call of scrape_all
    saved        \* the list main() handed to storage.save_to_json

\* the variables of the calls of the scorer, the filter and the extractors
callVars == <<heap, properties, filters, filtered, calls, prop, terms, score,
              rerun, all_text, extracted>>

\* the variables of the web application's background runs
webVars == <<requests, threads, temp_config_path>>

\* the variables of a run of main()
mainVars == <<config, scrape_filters, saved>>

\* the variables of the other operations
otherVars == <<fuzzy, listing, prop_dict, webVars, mainVars>>

vars == <<callVars, otherVars>>

-----------------------------------------------------------------------------
(* Bounds of the model *)

MaxPriceStep == 4      \* record prices are 500, 1000, .. 500 * MaxPriceStep
MaxRooms == 3          \* record bedrooms are 1 .. MaxRooms
MaxLen == 3            \* length of the list handed to filter_properties
MaxCalls == 2          \* filter_properties calls in one behaviour
MaxRequests == 2       \* POST /api/run-trawler requests in one behaviour

-----------------------------------------------------------------------------
(* Python values *)

None == <<>>
Some(x) == <<x>>
Inf == 1000000000

Get(d, k, default) == IF k \in DOMAIN d THEN d[k] ELSE default

\* the dict without the keys whose value is None
WithoutNone(f) == [ key \in { k \in DOMAIN f : f[k] # None } |-> f[key] ]

Abs(n) == IF n < 0 THEN -n ELSE n

RECURSIVE GCD(_, _)
GCD(a, b) == IF b = 0 THEN a ELSE GCD(b, a % b)

\* the fraction n / d (d > 0) in lowest terms
Frac(n, d) == LET g == GCD(Abs(n), d) IN <<n \div g, d \div g>>
Num(n) == <<n, 1>>
FracAdd(x, y) == Frac(x[1] * y[2] + y[1] * x[2], x[2] * y[2])
FracLeq(x, y) == x[1] * y[2] <= y[1] * x[2]
FracLess(x, y) == x[1] * y[2] < y[1] * x[2]
\* max(x, y) that lets its second argument through
FracMaxSecond(x, y) == y
FracMax(x, y) == IF FracLess(x, y) THEN y ELSE x
FracMin(x, y) == IF FracLess(y, x) THEN y ELSE x

-----------------------------------------------------------------------------
(* calculate_match_score, section by section.  Each section operator is    *)
(* what the section adds to score, as a fraction.                          *)

\* the marker for a call that ends in an uncaught TypeError
TypeError == <<"TypeError">>

\* Python truthiness of an Optional[str]: None and "" are falsy
Truthy(opt) == opt # None /\ opt[1] # ""

\* the price section measuring the distance against half the range
PriceScoreHalfRange(p, f) ==
    IF p.price # None
    THEN LET min_price == Get(f, "min_price", Some(0))
             max_price == Get(f, "max_price", Some(Inf))
         IN  IF min_price # None /\ max_price # None /\ max_price # Some(Inf)
             THEN LET price_range == max_price[1] - min_price[1]
                      price_diff2 == Abs(2 * p.price[1] - (min_price[1] + max_price[1]))
                  IN  IF price_range > 0
                      THEN FracMax(Num(0),
                                   Frac(30 * (price_range - price_diff2), price_range))
                      ELSE IF min_price[1] <= p.price[1] /\ p.price[1] <= max_price[1]
                           THEN Num(30)
                           ELSE Num(0)
             ELSE IF min_price # None
             THEN IF p.price[1] >= min_price[1] THEN Num(30) ELSE Num(0)
             ELSE IF max_price # None /\ max_price # Some(Inf)
             THEN IF p.price[1] <= max_price[1] THEN Num(30) ELSE Num(0)
             ELSE Num(15)
    ELSE Num(5)

\* "# Price match (30 points max)"
PriceScore(p, f) ==
    IF p.price # None
    THEN LET min_price == Get(f, "min_price", Some(0))
             max_price == Get(f, "max_price", Some(Inf))
         IN  IF min_price # None /\ max_price # None /\ max_price # Some(Inf)
             THEN LET price_range == max_price[1] - min_price[1]
                      \* price_diff = abs(price - ideal_price), doubled
                      price_diff2 == Abs(2 * p.price[1] - (min_price[1] + max_price[1]))
                  IN  IF price_range > 0
                      THEN FracMax(Num(0),
                                   Frac(30 * (2 * price_range - price_diff2),
                                        2 * price_range))
                      ELSE IF min_price[1] <= p.price[1] /\ p.price[1] <= max_price[1]
                           THEN Num(30)
                           ELSE Num(0)
             ELSE IF min_price # None
             THEN IF p.price[1] >= min_price[1] THEN Num(30) ELSE Num(0)
             ELSE IF max_price # None /\ max_price # Some(Inf)
             THEN IF p.price[1] <= max_price[1] THEN Num(30) ELSE Num(0)
             ELSE Num(15)
    ELSE Num(5)

\* the chained comparison lo <= value <= hi raises when it reaches a None
RangeRaises(value, lo, hi) ==
    \/ lo = None
    \/ (lo[1] <= value[1] /\ hi = None)

\* "# Bedrooms match (20 points max)"
BedroomsRaises(p, f) ==
    /\ Get(f, "min_bedrooms", None) # None \/ Get(f, "max_bedrooms", None) # None
    /\ p.bedrooms # None
    /\ RangeRaises(p.bedrooms, Get(f, "min_bedrooms", Some(0)),
                   Get(f, "max_bedrooms", Some(Inf)))

\* the bedrooms section taking the minimum as the ideal of every range
BedroomsScoreIdealMin(p, f) ==
    IF Get(f, "min_bedrooms", None) # None \/ Get(f, "max_bedrooms", None) # None
    THEN IF p.bedrooms # None
         THEN LET min_bed == Get(f, "min_bedrooms", Some(0))[1]
                  max_bed == Get(f, "max_bedrooms", Some(Inf))[1]
              IN  IF min_bed <= p.bedrooms[1] /\ p.bedrooms[1] <= max_bed
                  THEN IF p.bedrooms[1] = min_bed THEN Num(20) ELSE Num(15)
                  ELSE Num(5)
         ELSE Num(2)
    ELSE IF p.bedrooms # None THEN Num(10) ELSE Num(0)

BedroomsScore(p, f) ==
    IF Get(f, "min_bedrooms", None) # None \/ Get(f, "max_bedrooms", None) # None
    THEN IF p.bedrooms # None
         THEN LET min_bed == Get(f, "min_bedrooms", Some(0))[1]
                  max_bed == Get(f, "max_bedrooms", Some(Inf))[1]
              IN  IF min_bed <= p.bedrooms[1] /\ p.bedrooms[1] <= max_bed
                  THEN IF \/ (max_bed # Inf /\ 2 * p.bedrooms[1] = min_bed + max_bed)
                          \/ (max_bed = Inf /\ p.bedrooms[1] = min_bed)
                       THEN Num(20)
                       ELSE Num(15)
                  ELSE Num(5)
         ELSE Num(2)
    ELSE IF p.bedrooms # None THEN Num(10) ELSE Num(0)

\* "# Bathrooms match (20 points max)"
BathroomsRaises(p, f) ==
    /\ Get(f, "min_bathrooms", None) # None \/ Get(f, "max_bathrooms", None) # None
    /\ p.bathrooms # None
    /\ RangeRaises(p.bathrooms, Get(f, "min_bathrooms", Some(0)),
                   Get(f, "max_bathrooms", Some(Inf)))

\* the bathrooms section giving nothing to a value outside the range
BathroomsScoreOutsideZero(p, f) ==
    IF Get(f, "min_bathrooms", None) # None \/ Get(f, "max_bathrooms", None) # None
    THEN IF p.bathrooms # None
         THEN LET min_bath == Get(f, "min_bathrooms", Some(0))[1]
                  max_bath == Get(f, "max_bathrooms", Some(Inf))[1]
              IN  IF min_bath <= p.bathrooms[1] /\ p.bathrooms[1] <= max_bath
                  THEN IF \/ (max_bath # Inf /\ 2 * p.bathrooms[1] = min_bath + max_bath)
                          \/ (max_bath = Inf /\ p.bathrooms[1] = min_bath)
                       THEN Num(20)
                       ELSE Num(15)
                  ELSE Num(0)
         ELSE Num(2)
    ELSE IF p.bathrooms # None THEN Num(10) ELSE Num(0)

BathroomsScore(p, f) ==
    IF Get(f, "min_bathrooms", None) # None \/ Get(f, "max_bathrooms", None) # None
    THEN IF p.bathrooms # None
         THEN LET min_bath == Get(f, "min_bathrooms", Some(0))[1]
                  max_bath == Get(f, "max_bathrooms", Some(Inf))[1]
              IN  IF min_bath <= p.bathrooms[1] /\ p.bathrooms[1] <= max_bath
                  THEN IF \/ (max_bath # Inf /\ 2 * p.bathrooms[1] = min_bath + max_bath)
                          \/ (max_bath = Inf /\ p.bathrooms[1] = min_bath)
                       THEN Num(20)
                       ELSE Num(15)
                  ELSE Num(5)
         ELSE Num(2)
    ELSE IF p.bathrooms # None THEN Num(10) ELSE Num(0)

\* the garden section adding the 10 points of a match twice
GardenScoreTwice(p, f) ==
    IF Get(f, "has_garden", None) = Some(TRUE)
    THEN IF p.has_garden = Some(TRUE) THEN Num(20)
         ELSE IF p.has_garden = Some(FALSE) THEN Num(0)
         ELSE Num(3)
    ELSE IF Get(f, "has_garden", None) = Some(FALSE)
    THEN IF p.has_garden = Some(TRUE) THEN Num(3) ELSE Num(0)
    ELSE Num(0)

\* "# Garden match (10 points)"
GardenScore(p, f) ==
    IF Get(f, "has_garden", None) = Some(TRUE)
    THEN IF p.has_garden = Some(TRUE) THEN Num(10)
         ELSE IF p.has_garden = Some(FALSE) THEN Num(0)
         ELSE Num(3)
    ELSE IF Get(f, "has_garden", None) = Some(FALSE)
    THEN IF p.has_garden = Some(TRUE) THEN Num(3) ELSE Num(0)
    ELSE Num(0)

\* the balcony section without the benefit of the doubt for an unset value
BalconyScoreNoDoubt(p, f) ==
    IF Get(f, "has_balcony", None) = Some(TRUE)
    THEN IF p.has_balcony = Some(TRUE) THEN Num(10) ELSE Num(0)
    ELSE IF Get(f, "has_balcony", None) = Some(FALSE)
    THEN IF p.has_balcony = Some(TRUE) THEN Num(3) ELSE Num(0)
    ELSE Num(0)

\* "# Balcony match (10 points)"
BalconyScore(p, f) ==
    IF Get(f, "has_balcony", None) = Some(TRUE)
    THEN IF p.has_balcony = Some(TRUE) THEN Num(10)
         ELSE IF p.has_balcony = Some(FALSE) THEN Num(0)
         ELSE Num(3)
    ELSE IF Get(f, "has_balcony", None) = Some(FALSE)
    THEN IF p.has_balcony = Some(TRUE) THEN Num(3) ELSE Num(0)
    ELSE Num(0)

\* the completeness bonus that forgets the price
CompletenessNoPrice(p) ==
    Num( (IF p.bedrooms # None THEN 2 ELSE 0)
       + (IF p.bathrooms # None THEN 2 ELSE 0)
       + (IF Truthy(p.image_url) THEN 2 ELSE 0)
       + (IF Truthy(p.postcode) THEN 2 ELSE 0) )

\* "# Data completeness bonus (10 points)"
Completeness(p) ==
    Num( (IF p.price # None THEN 2 ELSE 0)
       + (IF p.bedrooms # None THEN 2 ELSE 0)
       + (IF p.bathrooms # None THEN 2 ELSE 0)
       + (IF Truthy(p.image_url) THEN 2 ELSE 0)
       + (IF Truthy(p.postcode) THEN 2 ELSE 0) )

\* the value of each "score +=" section of one call
ScoreTerms(p, f) ==
    [ price        |-> PriceScore(p, f),
      bedrooms     |-> BedroomsScore(p, f),
      bathrooms    |-> BathroomsScore(p, f),
      garden       |-> GardenScore(p, f),
      balcony      |-> BalconyScore(p, f),
      completeness |-> Completeness(p) ]

\* score after the last section, before "# Normalize to 0-100"
RawScore(p, f) ==
    FracAdd(PriceScore(p, f), FracAdd(BedroomsScore(p, f),
        FracAdd(BathroomsScore(p, f), FracAdd(GardenScore(p, f),
            FracAdd(BalconyScore(p, f), Completeness(p))))))

\* "# Normalize to 0-100": min(100.0, max(0.0, score))
Normalize(s) == FracMin(Num(100), FracMax(Num(0), s))

calculate_match_score(p, f) ==
    IF BedroomsRaises(p, f) \/ BathroomsRaises(p, f)
    THEN TypeError
    ELSE Normalize(RawScore(p, f))

-----------------------------------------------------------------------------
(* Text: str.lower, the in operator, re.search of a \bphrase\b pattern,    *)
(* re.split on a character class.                                          *)

UpperCase == "ABCDEFGHIJKLMNOPQRSTUVWXYZ"
LowerCase == "abcdefghijklmnopqrstuvwxyz"
Digits == "0123456789"

CharAt(s, i) == SubSeq(s, i, i)
Chars(s) == {CharAt(s, i) : i \in 1..Len(s)}
UpperChars == Chars(UpperCase)
WordChars == Chars(UpperCase) \cup Chars(LowerCase) \cup Chars(Digits) \cup {"_"}

LowerChar(c) ==
    IF c \in UpperChars
    THEN CharAt(LowerCase, CHOOSE i \in 1..Len(UpperCase) : CharAt(UpperCase, i) = c)
    ELSE c

\* str.lower, half by half
RECURSIVE Lower(_)
Lower(s) ==
    IF s = "" THEN ""
    ELSE IF Len(s) = 1 THEN LowerChar(s)
    ELSE Lower(SubSeq(s, 1, Len(s) \div 2)) \o Lower(SubSeq(s, Len(s) \div 2 + 1, Len(s)))

LowerChars == Chars(LowerCase)

UpperChar(c) ==
    IF c \in LowerChars
    THEN CharAt(UpperCase, CHOOSE i \in 1..Len(LowerCase) : CharAt(LowerCase, i) = c)
    ELSE c

\* str.upper
RECURSIVE Upper(_)
Upper(s) ==
    IF s = "" THEN ""
    ELSE IF Len(s) = 1 THEN UpperChar(s)
    ELSE Upper(SubSeq(s, 1, Len(s) \div 2)) \o Upper(SubSeq(s, Len(s) \div 2 + 1, Len(s)))

\* sub in text
Contains(text, sub) ==
    \E i \in 1..(Len(text) - Len(sub) + 1) : SubSeq(text, i, i + Len(sub) - 1) = sub

\* \w of the regular expressions
IsWordChar(c) == c \in WordChars

\* re.search(r'\bphrase\b', text) for a phrase that starts and ends with \w
SearchWord(phrase, text) ==
    \E i \in 1..(Len(text) - Len(phrase) + 1) :
        /\ SubSeq(text, i, i + Len(phrase) - 1) = phrase
        /\ (i = 1 \/ ~IsWordChar(CharAt(text, i - 1)))
        /\ (i + Len(phrase) > Len(text) \/ ~IsWordChar(CharAt(text, i + Len(phrase))))

\* re.split(r'[seps]+', s): the fields between the runs of separators, the
\* empty fields at either end included
RECURSIVE SplitFrom(_, _, _, _)
SplitFrom(s, seps, i, field) ==
    IF i > Len(s) THEN <<field>>
    ELSE IF CharAt(s, i) \in seps
    THEN IF i > 1 /\ CharAt(s, i - 1) \in seps
         THEN SplitFrom(s, seps, i + 1, field)
         ELSE <<field>> \o SplitFrom(s, seps, i + 1, "")
    ELSE SplitFrom(s, seps, i + 1, field \o CharAt(s, i))

Split(s, seps) == SplitFrom(s, seps, 1, "")

WhiteSpace == {" ", "\t", "\n"}

\* str.strip
RECURSIVE Strip(_)
Strip(s) ==
    IF s = "" THEN ""
    ELSE IF CharAt(s, 1) \in WhiteSpace THEN Strip(SubSeq(s, 2, Len(s)))
    ELSE IF CharAt(s, Len(s)) \in WhiteSpace THEN Strip(SubSeq(s, 1, Len(s) - 1))
    ELSE s

-----------------------------------------------------------------------------
(* _fuzzy_match_keyword *)

\* difflib.SequenceMatcher.find_longest_match over the whole of a and b:
\* the longest common block, of those the one earliest in a, then in b
BlockAt(a, b, i, j, k) == SubSeq(a, i, i + k - 1) = SubSeq(b, j, j + k - 1)

LongestBlock(a, b) ==
    LET blocks == { <<i, j, k>> \in (1..Len(a)) \X (1..Len(b)) \X (1..Len(a)) :
                        /\ i + k - 1 <= Len(a)
                        /\ j + k - 1 <= Len(b)
                        /\ BlockAt(a, b, i, j, k) }
    IN  IF blocks = {} THEN <<1, 1, 0>>
        ELSE CHOOSE m \in blocks :
                \A n \in blocks :
                    \/ m[3] > n[3]
                    \/ (m[3] = n[3] /\ m[1] < n[1])
                    \/ (m[3] = n[3] /\ m[1] = n[1] /\ m[2] <= n[2])

\* the total size of SequenceMatcher.get_matching_blocks
RECURSIVE Matches(_, _)
Matches(a, b) ==
    IF a = "" \/ b = "" THEN 0
    ELSE LET m == LongestBlock(a, b)
         IN  IF m[3] = 0 THEN 0
             ELSE m[3]
                  + Matches(SubSeq(a, 1, m[1] - 1), SubSeq(b, 1, m[2] - 1))
                  + Matches(SubSeq(a, m[1] + m[3], Len(a)), SubSeq(b, m[2] + m[3], Len(b)))

\* SequenceMatcher(None, a, b).ratio() >= num / den
RatioAtLeast(a, b, num, den) == 2 * Matches(a, b) * den >= num * (Len(a) + Len(b))

\* _fuzzy_match_keyword whose short keywords have to be a whole word
_fuzzy_match_keywordWholeWord(keyword, text) ==
    IF Len(keyword) <= 3 THEN SearchWord(keyword, text)
    ELSE LET words == Split(text, WhiteSpace)
         IN  \E n \in 1..Len(words) :
                LET word == words[n]
                IN  /\ Len(word) >= 3
                    /\ \/ Contains(word, keyword)
                       \/ Contains(keyword, word)
                       \/ IF Len(keyword) <= 6
                          THEN RatioAtLeast(keyword, word, 3, 4)
                          ELSE RatioAtLeast(keyword, word, 7, 10)

_fuzzy_match_keyword(keyword, text) ==
    IF Len(keyword) <= 3 THEN Contains(text, keyword)
    ELSE LET words == Split(text, WhiteSpace)
         IN  \E n \in 1..Len(words) :
                LET word == words[n]
                IN  /\ Len(word) >= 3
                    /\ \/ Contains(word, keyword)
                       \/ Contains(keyword, word)
                       \/ IF Len(keyword) <= 6
                          THEN RatioAtLeast(keyword, word, 3, 4)
                          ELSE RatioAtLeast(keyword, word, 7, 10)

-----------------------------------------------------------------------------
(* The category classifiers.  The text handed to a classifier or to an      *)
(* extractor is an Optional[str]: None, or Some of a string.               *)

student_indicators ==
    { "student", "student accommodation", "student housing", "student flat",
      "student room", "university accommodation", "hall of residence",
      "student halls", "student let", "student property", "for students",
      "student only" }

house_share_indicators ==
    { "house share", "house sharing", "shared house", "share house",
      "room in shared house", "shared accommodation", "room to rent",
      "single room", "double room", "room available", "room for rent",
      "share of", "sharing with" }

retirement_indicators ==
    { "retirement", "retirement property", "retirement flat", "retirement home",
      "retirement housing", "over 55", "over 60", "over 65", "age restricted",
      "senior living", "sheltered accommodation", "retirement village",
      "retirement community" }

_is_student_accommodation(text) ==
    /\ Truthy(text)
    /\ \E phrase \in student_indicators : SearchWord(phrase, Lower(text[1]))

_is_house_share(text) ==
    /\ Truthy(text)
    /\ \E phrase \in house_share_indicators : SearchWord(phrase, Lower(text[1]))

_is_retirement_property(text) ==
    /\ Truthy(text)
    /\ \E phrase \in retirement_indicators : SearchWord(phrase, Lower(text[1]))

-----------------------------------------------------------------------------
(* _extract_garden and _extract_balcony: None, Some(TRUE) or Some(FALSE)   *)

\* the positive indicators, each searched as \bphrase\b
garden_indicators ==
    { "garden", "private garden", "shared garden", "outdoor space", "patio",
      "terrace", "yard", "courtyard" }

\* the negative indicators, each searched as it stands
no_garden_indicators == { "no garden", "without garden", "no outdoor space" }

balcony_indicators ==
    { "balcony", "balconies", "private balcony", "shared balcony", "terrace" }

no_balcony_indicators == { "no balcony", "without balcony" }

\* _extract_garden with the negative indicators tried first
_extract_gardenNegativeFirst(text) ==
    IF ~Truthy(text) THEN None
    ELSE IF \E phrase \in no_garden_indicators : Contains(Lower(text[1]), phrase)
    THEN Some(FALSE)
    ELSE IF \E phrase \in garden_indicators : SearchWord(phrase, Lower(text[1]))
    THEN Some(TRUE)
    ELSE None

_extract_garden(text) ==
    IF ~Truthy(text) THEN None
    ELSE IF \E phrase \in garden_indicators : SearchWord(phrase, Lower(text[1]))
    THEN Some(TRUE)
    ELSE IF \E phrase \in no_garden_indicators : Contains(Lower(text[1]), phrase)
    THEN Some(FALSE)
    ELSE None

\* _extract_balcony that takes no text for no balcony
_extract_balconyFalseOnNoText(text) ==
    IF ~Truthy(text) THEN Some(FALSE)
    ELSE IF \E phrase \in balcony_indicators : SearchWord(phrase, Lower(text[1]))
    THEN Some(TRUE)
    ELSE IF \E phrase \in no_balcony_indicators : Contains(Lower(text[1]), phrase)
    THEN Some(FALSE)
    ELSE None

_extract_balcony(text) ==
    IF ~Truthy(text) THEN None
    ELSE IF \E phrase \in balcony_indicators : SearchWord(phrase, Lower(text[1]))
    THEN Some(TRUE)
    ELSE IF \E phrase \in no_balcony_indicators : Contains(Lower(text[1]), phrase)
    THEN Some(FALSE)
    ELSE None

-----------------------------------------------------------------------------
(* _extract_price: None or Some(price), price a fraction                   *)

\* the alternatives that follow the amount in each of price_patterns, in
\* the order the patterns are tried; the third pattern has none
monthly_qualifiers == { "pcm", "per month", "pm" }
weekly_qualifiers == { "pw", "per week" }
price_patterns == << monthly_qualifiers, weekly_qualifiers, {} >>

\* [\d,]
AmountChars == Chars(Digits) \cup {","}

\* the first position from i on whose character is not in set
RECURSIVE SkipWhile(_, _, _)
SkipWhile(s, i, set) ==
    IF i <= Len(s) /\ CharAt(s, i) \in set THEN SkipWhile(s, i + 1, set) ELSE i

\* group(1) of a match of the pattern that starts at position i, or None.
\* \s* and [\d,]+ are greedy and what follows each cannot start with a
\* character of its class, so the only match takes each run whole.
MatchAt(s, i, qualifiers) ==
    LET j == SkipWhile(s, i + 1, WhiteSpace)
        k == SkipWhile(s, j, AmountChars)
        m == SkipWhile(s, k, WhiteSpace)
    IN  IF CharAt(s, i) # "£" \/ k = j THEN None
        ELSE IF \/ qualifiers = {}
                \/ \E q \in qualifiers :
                      /\ m + Len(q) - 1 <= Len(s)
                      /\ Lower(SubSeq(s, m, m + Len(q) - 1)) = q
        THEN Some(SubSeq(s, j, k - 1))
        ELSE None

\* re.search(pattern, text, re.IGNORECASE): the leftmost match
re_search(s, qualifiers) ==
    LET starts == { i \in 1..Len(s) : MatchAt(s, i, qualifiers) # None }
    IN  IF starts = {} THEN None
        ELSE MatchAt(s, CHOOSE i \in starts : \A other \in starts : i <= other,
                     qualifiers)

\* str.replace(',', '')
RECURSIVE RemoveCommas(_)
RemoveCommas(s) ==
    IF s = "" THEN ""
    ELSE IF CharAt(s, 1) = "," THEN RemoveCommas(SubSeq(s, 2, Len(s)))
    ELSE CharAt(s, 1) \o RemoveCommas(SubSeq(s, 2, Len(s)))

\* float(price_str) of a non-empty string of digits
DigitValue(c) == (CHOOSE i \in 1..Len(Digits) : CharAt(Digits, i) = c) - 1

RECURSIVE ToNumber(_)
ToNumber(s) ==
    IF s = "" THEN 0
    ELSE ToNumber(SubSeq(s, 1, Len(s) - 1)) * 10 + DigitValue(CharAt(s, Len(s)))

\* price * 52 / 12, as the fraction 13 * price / 3
Monthly(price) == Frac(13 * price, 3)

\* "# Sanity check"
Reasonable(price) == FracLeq(Num(100), price) /\ FracLeq(price, Num(10000000))

\* the loop over price_patterns from pattern n on.  float('') raises
\* ValueError, which the loop catches and goes on.
RECURSIVE PriceFrom(_, _)
PriceFrom(text, n) ==
    IF n > Len(price_patterns) THEN None
    ELSE LET match == re_search(text, price_patterns[n])
             price_str == RemoveCommas(match[1])
             price == IF Contains(Lower(text), "pw") \/ Contains(Lower(text), "per week")
                      THEN Monthly(ToNumber(price_str))
                      ELSE Num(ToNumber(price_str))
         IN  IF match = None THEN PriceFrom(text, n + 1)
             ELSE IF price_str = "" THEN PriceFrom(text, n + 1)
             ELSE IF Reasonable(price) THEN Some(price)
             ELSE PriceFrom(text, n + 1)

_extract_price(text) == IF ~Truthy(text) THEN None ELSE PriceFrom(text[1], 1)

-----------------------------------------------------------------------------
(* _extract_bedrooms and _extract_bathrooms: None or Some(count)           *)

DigitChars == Chars(Digits)

\* the alternatives that follow the count in the two patterns
bed_units == { "bed", "bedroom" }
bath_units == { "bath", "bathroom" }

\* group(1) of a match of (\d+)\s*(?:units) that starts at position i, or
\* None.  \d+ and \s* are greedy and what follows each cannot start with a
\* character of its class, so the only match takes each run whole.
CountAt(s, i, units) ==
    LET k == SkipWhile(s, i, DigitChars)
        m == SkipWhile(s, k, WhiteSpace)
    IN  IF k = i THEN None
        ELSE IF \E unit \in units :
                    /\ m + Len(unit) - 1 <= Len(s)
                    /\ SubSeq(s, m, m + Len(unit) - 1) = unit
        THEN Some(SubSeq(s, i, k - 1))
        ELSE None

\* int(match.group(1)) of the leftmost match in text.lower(), or None
CountOf(s, units) ==
    LET starts == { i \in 1..Len(s) : CountAt(s, i, units) # None }
    IN  IF starts = {} THEN None
        ELSE Some(ToNumber(CountAt(s, CHOOSE i \in starts : \A other \in starts : i <= other,
                                   units)[1]))

_extract_bedrooms(text) ==
    IF ~Truthy(text) THEN None ELSE CountOf(Lower(text[1]), bed_units)

_extract_bathrooms(text) ==
    IF ~Truthy(text) THEN None ELSE CountOf(Lower(text[1]), bath_units)

-----------------------------------------------------------------------------
(* _extract_postcode: None or Some(postcode)                               *)

\* a run of characters of the set from position i on, exactly n long
RunAt(s, i, n, set) ==
    /\ i + n - 1 <= Len(s)
    /\ \A j \in i..(i + n - 1) : CharAt(s, j) \in set

\* [A-Z]{1,2}\d{1,2}[A-Z]?\s?\d[A-Z]{2} from position i on: the lengths of
\* the four parts of variable length, for every way the pattern matches
PostcodeParts(s, i) ==
    { part \in (1..2) \X (1..2) \X (0..1) \X (0..1) :
        /\ RunAt(s, i, part[1], UpperChars)
        /\ RunAt(s, i + part[1], part[2], DigitChars)
        /\ RunAt(s, i + part[1] + part[2], part[3], UpperChars)
        /\ RunAt(s, i + part[1] + part[2] + part[3], part[4], WhiteSpace)
        /\ RunAt(s, i + part[1] + part[2] + part[3] + part[4], 1, DigitChars)
        /\ RunAt(s, i + part[1] + part[2] + part[3] + part[4] + 1, 2, UpperChars) }

\* the quantifiers are greedy: the match is the one that takes the longer
\* alternative at the first part where two ways differ
Greedier(a, b) ==
    \E n \in 1..4 : a[n] > b[n] /\ \A m \in 1..(n - 1) : a[m] = b[m]

postcode_search(s) ==
    LET starts == { i \in 1..Len(s) : PostcodeParts(s, i) # {} }
    IN  IF starts = {} THEN None
        ELSE LET i == CHOOSE first \in starts : \A other \in starts : first <= other
                 part == CHOOSE a \in PostcodeParts(s, i) :
                            \A b \in PostcodeParts(s, i) : a = b \/ Greedier(a, b)
             IN  Some(SubSeq(s, i, i + part[1] + part[2] + part[3] + part[4] + 2))

_extract_postcode(text) ==
    IF ~Truthy(text) THEN None ELSE postcode_search(Upper(text[1]))

-----------------------------------------------------------------------------
(* The Property objects of the model, and the text functions evaluated     *)
(* once over their texts                                                   *)

\* a Property as the system test constructs it: the fields the scorer and
\* the filter read as given, the other fields as the test sets them, and
\* match_score at its default
Property(title, address, description, price, bedrooms, bathrooms, has_garden, has_balcony, image_url, postcode) ==
    [ title |-> title, price |-> price, address |-> address,
      property_type |-> "house", bedrooms |-> bedrooms, bathrooms |-> bathrooms,
      area_sqft |-> None, description |-> description,
      url |-> "http://test.com", source |-> "Test", listed_date |-> None,
      location |-> address, postcode |-> postcode,
      has_garden |-> has_garden, has_balcony |-> has_balcony,
      image_url |-> image_url, match_score |-> None ]

\* The Property objects of the filter runs.  Object 1 is the record of the
\* system test; object 2 scores like it under every numeric query.
Pool ==
    << Property("Test Property", "London", "Test description",
                Some(1500), Some(2), Some(1), Some(TRUE), Some(FALSE),
                Some("http://test.com/image.jpg"), Some("SW1A 1AA")),
       Property("Garden cottage", "Leeds", "Lovely garden and parking",
                Some(1500), Some(2), Some(1), Some(TRUE), Some(FALSE),
                Some("http://test.com/cottage.jpg"), Some("LS1 4AP")),
       Property("Student flat", "Leeds", "Ideal for students",
                Some(1000), Some(3), Some(2), None, Some(TRUE),
                None, None),
       Property("Room to rent", "London", "Double room in shared house",
                Some(500), Some(1), None, Some(FALSE), None,
                Some("http://test.com/room.jpg"), None),
       Property("Retirement flat", "Bath", "Over 55 only with balcony",
                None, None, Some(1), Some(TRUE), Some(TRUE),
                None, Some("BA1 1AA")) >>

\* the keywords strings of the model's filters
KeywordStrings ==
    {"Garden", "flat balcony", "graden, balcony, parking",
     "leeds london flat garden", "leeds, flat, balcony, garden, parking"}

\* the texts of the model's records
TextFields ==
    {<<Pool[i].title, Pool[i].address, Pool[i].description>> : i \in DOMAIN Pool}
        \cup {<<"Test Property", "London", "Test description">>}
TitleDescriptions == {<<t[1], t[3]>> : t \in TextFields}

\* combined_text of the loop
combined_text(title, description) == Lower(title \o " " \o description)

\* the classifiers on combined_text, per title and description
student_text ==
    [t \in TitleDescriptions |-> _is_student_accommodation(Some(combined_text(t[1], t[2])))]
house_share_text ==
    [t \in TitleDescriptions |-> _is_house_share(Some(combined_text(t[1], t[2])))]
retirement_text ==
    [t \in TitleDescriptions |-> _is_retirement_property(Some(combined_text(t[1], t[2])))]

-----------------------------------------------------------------------------
(* Property.to_dict and the Property a scraper assembles from a listing    *)

\* the longest description to_dict emits and a scraper stores
MaxDescription == 500

\* s[:n]
Slice(s, n) == SubSeq(s, 1, IF Len(s) < n THEN Len(s) ELSE n)

\* Python truthiness of a str
NonEmptyStr(s) == s # ""

\* the fields of Property declared Optional
OptionalFields ==
    { "price", "bedrooms", "bathrooms", "area_sqft", "listed_date", "postcode",
      "has_garden", "has_balcony", "image_url", "match_score" }

\* to_dict that leaves out the fields that are None
to_dictOmitNone(self, now) ==
    LET full == [ title |-> self.title, price |-> self.price,
                  address |-> self.address, property_type |-> self.property_type,
                  bedrooms |-> self.bedrooms, bathrooms |-> self.bathrooms,
                  area_sqft |-> self.area_sqft,
                  description |-> IF NonEmptyStr(self.description)
                                  THEN Slice(self.description, MaxDescription)
                                  ELSE "",
                  url |-> self.url, source |-> self.source,
                  listed_date |-> self.listed_date, location |-> self.location,
                  postcode |-> self.postcode, has_garden |-> self.has_garden,
                  has_balcony |-> self.has_balcony, image_url |-> self.image_url,
                  match_score |-> self.match_score, scraped_at |-> now ]
    IN  [ key \in { k \in DOMAIN full : k \notin OptionalFields \/ full[k] # None } |->
            full[key] ]

to_dict(self, now) ==
    [ title |-> self.title, price |-> self.price,
      address |-> self.address, property_type |-> self.property_type,
      bedrooms |-> self.bedrooms, bathrooms |-> self.bathrooms,
      area_sqft |-> self.area_sqft,
      description |-> IF NonEmptyStr(self.description)
                      THEN Slice(self.description, MaxDescription)
                      ELSE "",
      url |-> self.url, source |-> self.source,
      listed_date |-> self.listed_date, location |-> self.location,
      postcode |-> self.postcode, has_garden |-> self.has_garden,
      has_balcony |-> self.has_balcony, image_url |-> self.image_url,
      match_score |-> self.match_score, scraped_at |-> now ]

\* x or y of two str
OrStr(x, y) == IF NonEmptyStr(x) THEN x ELSE y

\* the body of the loop over listings in scrape_spareroom, from the text
\* fragments of a listing: the title of the link, the text of the price,
\* address and description elements (None where the element is missing),
\* the text of the whole listing, and the url and image url found
property_obj(l, location) ==
    LET address == IF l.address_elem = None THEN location ELSE l.address_elem[1]
        description == IF l.desc_elem = None THEN l.title ELSE l.desc_elem[1]
        price_text == IF l.price_elem = None THEN "" ELSE l.price_elem[1]
    IN  [ title |-> l.title,
          price |-> _extract_price(Some(OrStr(price_text, l.all_text))),
          address |-> address,
          property_type |-> IF Contains(Lower(l.title), "flat")
                               \/ Contains(Lower(l.title), "apartment")
                            THEN "flat" ELSE "house",
          bedrooms |-> _extract_bedrooms(Some(OrStr(l.all_text, l.title))),
          bathrooms |-> _extract_bathrooms(Some(OrStr(l.all_text, l.title))),
          area_sqft |-> None,
          description |-> IF NonEmptyStr(description)
                          THEN Slice(description, MaxDescription)
                          ELSE l.title,
          url |-> l.url,
          source |-> "Spareroom",
          listed_date |-> None,
          location |-> location,
          postcode |-> _extract_postcode(Some(address)),
          has_garden |-> _extract_garden(Some(OrStr(l.all_text, OrStr(description, l.title)))),
          has_balcony |-> _extract_balcony(Some(OrStr(l.all_text, OrStr(description, l.title)))),
          image_url |-> l.image_url,
          match_score |-> None ]

-----------------------------------------------------------------------------
(* filter_properties: the gates of one record, in the order of the loop    *)

\* Python truthiness of an Optional[bool]
IsTrue(opt) == opt = Some(TRUE)

\* "# Exclude student accommodation", "# Exclude house shares",
\* "# Exclude retirement properties"
ExcludedAsStudent(p, f) ==
    /\ IsTrue(Get(f, "exclude_student_accommodation", Some(FALSE)))
    /\ student_text[<<p.title, p.description>>]

\* the house share exclusion applied whatever the flag says
ExcludedAsHouseShareAlways(p, f) ==
    house_share_text[<<p.title, p.description>>]

ExcludedAsHouseShare(p, f) ==
    /\ IsTrue(Get(f, "exclude_house_shares", Some(FALSE)))
    /\ house_share_text[<<p.title, p.description>>]

ExcludedAsRetirement(p, f) ==
    /\ IsTrue(Get(f, "exclude_retirement", Some(FALSE)))
    /\ retirement_text[<<p.title, p.description>>]

\* the bedroom filter whose max gate also fails a record with no value
FailsBedroomsUnsetFailsMax(p, f) ==
    \/ /\ Get(f, "min_bedrooms", None) # None
       /\ (p.bedrooms = None \/ p.bedrooms[1] < f["min_bedrooms"][1])
    \/ /\ Get(f, "max_bedrooms", None) # None
       /\ (p.bedrooms = None \/ p.bedrooms[1] > f["max_bedrooms"][1])

\* the bedroom filter whose min gate lets a record with no value through
FailsBedroomsUnsetPassesMin(p, f) ==
    \/ /\ Get(f, "min_bedrooms", None) # None
       /\ (p.bedrooms # None /\ p.bedrooms[1] < f["min_bedrooms"][1])
    \/ /\ Get(f, "max_bedrooms", None) # None
       /\ (p.bedrooms # None /\ p.bedrooms[1] > f["max_bedrooms"][1])

\* "# Bedroom filter"
FailsBedrooms(p, f) ==
    \/ /\ Get(f, "min_bedrooms", None) # None
       /\ (p.bedrooms = None \/ p.bedrooms[1] < f["min_bedrooms"][1])
    \/ /\ Get(f, "max_bedrooms", None) # None
       /\ (p.bedrooms # None /\ p.bedrooms[1] > f["max_bedrooms"][1])

\* "# Bathroom filter"
FailsBathrooms(p, f) ==
    \/ /\ Get(f, "min_bathrooms", None) # None
       /\ (p.bathrooms = None \/ p.bathrooms[1] < f["min_bathrooms"][1])
    \/ /\ Get(f, "max_bathrooms", None) # None
       /\ (p.bathrooms # None /\ p.bathrooms[1] > f["max_bathrooms"][1])

\* the garden filter that lets a record with no value through
FailsGardenUnsetPasses(p, f) ==
    /\ Get(f, "has_garden", None) # None
    /\ p.has_garden # None
    /\ p.has_garden # f["has_garden"]

\* "# Garden filter"
FailsGarden(p, f) ==
    /\ Get(f, "has_garden", None) # None
    /\ p.has_garden # f["has_garden"]

\* "# Balcony filter"
FailsBalcony(p, f) ==
    /\ Get(f, "has_balcony", None) # None
    /\ p.has_balcony # f["has_balcony"]

\* "# Price filter"
FailsPrice(p, f) ==
    \/ /\ Get(f, "min_price", None) # None
       /\ (p.price = None \/ p.price[1] < f["min_price"][1])
    \/ /\ Get(f, "max_price", None) # None
       /\ (p.price # None /\ p.price[1] > f["max_price"][1])

\* "# Keywords filter"
NonEmpty(s) == s # ""

SplitKeywords(keywords_str) ==
    SelectSeq(Split(keywords_str, WhiteSpace \cup {","}), NonEmpty)

searchable_text(title, address, description) ==
    Lower(title \o " " \o address \o " " \o description)

KeywordMatches(kw, text) == Contains(text, kw) \/ _fuzzy_match_keyword(kw, text)

\* min_required without the extra one of an odd count
min_requiredHalfDown(n) ==
    IF n <= 2 THEN 1 ELSE n \div 2

min_required(n) ==
    IF n <= 2 THEN 1 ELSE (n \div 2) + (IF n % 2 = 1 THEN 1 ELSE 0)

\* the keywords of a non-empty keywords string
Keywords(keywords) == SplitKeywords(Strip(Lower(keywords)))

\* len(matching_keywords)
match_count(keywords, text) ==
    Cardinality({ n \in 1..Len(keywords) : KeywordMatches(keywords[n], text) })

\* the keywords and the match counts, per keywords string and record texts
keywords_of == [k \in KeywordStrings |-> Keywords(k)]
matches_of ==
    [x \in { <<k, t[1], t[2], t[3]>> : k \in KeywordStrings, t \in TextFields } |->
        match_count(keywords_of[x[1]], searchable_text(x[2], x[3], x[4]))]

FailsKeywords(p, f) ==
    /\ Truthy(Get(f, "keywords", None))
    /\ Strip(Lower(f["keywords"][1])) # ""
    /\ keywords_of[f["keywords"][1]] # <<>>
    /\ matches_of[<<f["keywords"][1], p.title, p.address, p.description>>]
         < min_required(Len(keywords_of[f["keywords"][1]]))

\* the record reaches none of the continue statements
PassesGates(p, f) ==
    /\ ~ExcludedAsStudent(p, f)
    /\ ~ExcludedAsHouseShare(p, f)
    /\ ~ExcludedAsRetirement(p, f)
    /\ ~FailsBedrooms(p, f)
    /\ ~FailsBathrooms(p, f)
    /\ ~FailsGarden(p, f)
    /\ ~FailsBalcony(p, f)
    /\ ~FailsPrice(p, f)
    /\ ~FailsKeywords(p, f)

\* key of filtered.sort: p.match_score or 0
SortKey(p) == IF p.match_score = None THEN Num(0) ELSE p.match_score[1]

\* list.sort(key=..., reverse=True): descending, and stable (records with
\* equal keys keep their order)
\* a descending sort that puts a record before the records of equal key
RECURSIVE InsertSortedUnstable(_, _, _)
InsertSortedUnstable(h, sorted, id) ==
    IF sorted = <<>> THEN <<id>>
    ELSE IF FracLeq(SortKey(h[Head(sorted)]), SortKey(h[id]))
    THEN <<id>> \o sorted
    ELSE <<Head(sorted)>> \o InsertSortedUnstable(h, Tail(sorted), id)

RECURSIVE InsertSorted(_, _, _)
InsertSorted(h, sorted, id) ==
    IF sorted = <<>> THEN <<id>>
    ELSE IF FracLess(SortKey(h[Head(sorted)]), SortKey(h[id]))
    THEN <<id>> \o sorted
    ELSE <<Head(sorted)>> \o InsertSorted(h, Tail(sorted), id)

\* filtered left in the order of the loop
SortByScoreForgotten(h, ids) == ids

RECURSIVE SortByScore(_, _)
SortByScore(h, ids) ==
    IF ids = <<>> THEN <<>>
    ELSE InsertSorted(h, SortByScore(h, SubSeq(ids, 1, Len(ids) - 1)), ids[Len(ids)])

\* the loop with the score assigned before the gates are tried
RECURSIVE FilterLoopScoreFirst(_, _, _, _, _)
FilterLoopScoreFirst(h, ids, f, n, kept) ==
    IF n > Len(ids) THEN [heap |-> h, filtered |-> kept, raised |-> FALSE]
    ELSE LET match_score == calculate_match_score(h[ids[n]], f)
             scored == [h EXCEPT ![ids[n]].match_score = Some(match_score)]
         IN  IF match_score = TypeError
             THEN [heap |-> h, filtered |-> kept, raised |-> TRUE]
             ELSE IF ~PassesGates(h[ids[n]], f)
             THEN FilterLoopScoreFirst(scored, ids, f, n + 1, kept)
             ELSE FilterLoopScoreFirst(scored, ids, f, n + 1, Append(kept, ids[n]))

\* the for loop over properties from position n on: the heap with the
\* scores assigned so far, the list filtered, and whether the scorer raised
\* (match_score, bound by the set, is computed once per record)
RECURSIVE FilterLoop(_, _, _, _, _)
FilterLoop(h, ids, f, n, kept) ==
    IF n > Len(ids) THEN [heap |-> h, filtered |-> kept, raised |-> FALSE]
    ELSE IF ~PassesGates(h[ids[n]], f) THEN FilterLoop(h, ids, f, n + 1, kept)
    ELSE CHOOSE loop \in
             { IF match_score = TypeError
               THEN [heap |-> h, filtered |-> kept, raised |-> TRUE]
               ELSE FilterLoop([h EXCEPT ![ids[n]].match_score = Some(match_score)],
                               ids, f, n + 1, Append(kept, ids[n])) :
               match_score \in {calculate_match_score(h[ids[n]], f)} } : TRUE

\* filter_properties that assigns the score to price
filter_propertiesScoreInPrice(h, ids, f) ==
    CHOOSE call \in
        { [ heap |-> [ id \in DOMAIN h |->
                         [h[id] EXCEPT !.price = loop.heap[id].match_score] ],
            result |-> IF loop.raised THEN TypeError ELSE loop.filtered ] :
          loop \in {FilterLoop(h, ids, f, 1, <<>>)} } : TRUE

\* the heap after the call and what the call returns
filter_properties(h, ids, f) ==
    CHOOSE call \in
        { [ heap |-> loop.heap,
            result |-> IF loop.raised THEN TypeError
                       ELSE SortByScore(loop.heap, loop.filtered) ] :
          loop \in {FilterLoop(h, ids, f, 1, <<>>)} } : TRUE

-----------------------------------------------------------------------------
(* The inputs the model draws *)

Optional(S) == {None} \cup {Some(x) : x \in S}

\* a dict entry that is either omitted (the empty choice) or given
Omitted == {}
Given(S) == {{v} : v \in S}
Entry(k, choice) ==
    [x \in (IF choice = Omitted THEN {} ELSE {k}) |-> CHOOSE v \in choice : TRUE]

PriceValues == {500 * k : k \in 1..MaxPriceStep}
PriceBounds == {Some(1000), Some(2000)}
RoomValues == 1..MaxRooms
RoomBounds == {Some(2), Some(3)}
BathValues == {1, 2}
BathBounds == {Some(2)}
TriState == {None, Some(TRUE), Some(FALSE)}
Flags == {Some(TRUE), Some(FALSE)}

\* the dict of a call, key by key
Filters(min_price, max_price, min_bedrooms, max_bedrooms, min_bathrooms, max_bathrooms, has_garden, has_balcony) ==
    Entry("min_price", min_price) @@ Entry("max_price", max_price)
        @@ Entry("min_bedrooms", min_bedrooms) @@ Entry("max_bedrooms", max_bedrooms)
        @@ Entry("min_bathrooms", min_bathrooms) @@ Entry("max_bathrooms", max_bathrooms)
        @@ Entry("has_garden", has_garden) @@ Entry("has_balcony", has_balcony)

TestProperty(price, bedrooms, bathrooms, has_garden, has_balcony, image_url, postcode) ==
    Property("Test Property", "London", "Test description",
             price, bedrooms, bathrooms, has_garden, has_balcony, image_url, postcode)

ImageUrls == {None, Some("http://test.com/image.jpg")}
Postcodes == {None, Some("SW1A 1AA")}

\* Direct calls of calculate_match_score, every bound of the filters omitted
\* or a number.  NumericCalls: every combination of the price, bedrooms and
\* bathrooms fields and bounds, with the feature fields all unset and
\* unasked, or all set and asked for.
NumericCalls ==
    { <<TestProperty(price, bedrooms, bathrooms, feature[1], feature[1],
                     feature[2], feature[3]),
        Filters(a, b, c, d, e, g, feature[4], feature[4])>> :
        price \in Optional(PriceValues),
        bedrooms \in Optional(RoomValues),
        bathrooms \in Optional(BathValues),
        a \in {Omitted} \cup Given(PriceBounds),
        b \in {Omitted} \cup Given(PriceBounds),
        c \in {Omitted} \cup Given(RoomBounds),
        d \in {Omitted} \cup Given(RoomBounds),
        e \in {Omitted} \cup Given(BathBounds),
        g \in {Omitted} \cup Given(BathBounds),
        feature \in { <<None, None, None, Omitted>>,
                      <<Some(TRUE), Some("http://test.com/image.jpg"),
                        Some("SW1A 1AA"), {Some(TRUE)}>> } }

\* FeatureCalls: every combination of the garden, balcony, image and
\* postcode fields and preferences, with the numeric fields and bounds of
\* the system test, all unset, or a point query.
FeatureCalls ==
    { <<TestProperty(numeric[1], numeric[2], numeric[3],
                     has_garden, has_balcony, image_url, postcode),
        Filters(numeric[4], numeric[5], numeric[6], numeric[7],
                numeric[8], numeric[9], h, i)>> :
        has_garden \in TriState,
        has_balcony \in TriState,
        image_url \in ImageUrls,
        postcode \in Postcodes,
        h \in {Omitted} \cup Given(Flags),
        i \in {Omitted} \cup Given(Flags),
        numeric \in { <<Some(1500), Some(2), Some(1),
                        {Some(1000)}, {Some(2000)}, {Some(2)}, {Some(3)}, Omitted, Omitted>>,
                      <<None, None, None,
                        Omitted, Omitted, Omitted, Omitted, Omitted, Omitted>>,
                      <<Some(500), None, None,
                        {Some(1000)}, {Some(2000)}, Omitted, Omitted, Omitted, Omitted>>,
                      <<Some(1000), Some(2), Some(2),
                        {Some(1000)}, {Some(1000)}, {Some(2)}, {Some(2)},
                        {Some(2)}, {Some(2)}>> } }

ScoreCalls == NumericCalls \cup FeatureCalls

\* the lists handed to filter_properties: distinct objects, in any order
Lists ==
    UNION { { l \in [1..n -> DOMAIN Pool] : \A i, j \in 1..n : l[i] = l[j] => i = j } :
            n \in 1..MaxLen }

\* the filters of the system test
TestFilters ==
    Filters({Some(1000)}, {Some(2000)}, {Some(2)}, {Some(3)},
            Omitted, Omitted, {Some(TRUE)}, Omitted)

\* the filters dicts handed to filter_properties
FilterQueries ==
    { <<>>, TestFilters,
      [exclude_student_accommodation |-> Some(TRUE)],
      [exclude_house_shares |-> Some(TRUE)],
      [exclude_student_accommodation |-> Some(FALSE),
       exclude_house_shares |-> Some(FALSE),
       exclude_retirement |-> Some(TRUE)],
      [min_bedrooms |-> Some(2)],
      [max_bedrooms |-> Some(2)],
      [min_bathrooms |-> Some(1), max_bathrooms |-> Some(1)],
      [max_bathrooms |-> Some(1)],
      [has_garden |-> Some(TRUE)],
      [has_garden |-> Some(FALSE)],
      [has_balcony |-> Some(TRUE)],
      [has_balcony |-> Some(FALSE)],
      [min_price |-> Some(1000)],
      [max_price |-> Some(1000)],
      [min_price |-> Some(500), max_price |-> Some(1500)],
      [keywords |-> Some("Garden")],
      [keywords |-> Some("graden, balcony, parking")] }

-----------------------------------------------------------------------------
(* A direct call score = trawler.calculate_match_score(test_prop, filters) *)

\* an extractor that has not been called, and one that returned value
Pending == <<"pending", None>>
Returned(value) == <<"returned", value>>
NotExtracted ==
    [ price |-> Pending, bedrooms |-> Pending, bathrooms |-> Pending,
      has_garden |-> Pending, has_balcony |-> Pending, postcode |-> Pending,
      is_student |-> Pending, is_house_share |-> Pending,
      is_retirement |-> Pending ]

\* no extractor is part of the run
NotCalled == <<"not called", None>>
NoExtractors == [ name \in DOMAIN NotExtracted |-> NotCalled ]

\* no call of the scorer, the filter or the extractors is part of the run
CallsIdle ==
    /\ heap = <<>>
    /\ properties = <<>>
    /\ filters = <<>>
    /\ filtered = None
    /\ calls = 0
    /\ prop = None
    /\ terms = [ price |-> None, bedrooms |-> None, bathrooms |-> None,
                 garden |-> None, balcony |-> None, completeness |-> None ]
    /\ score = None
    /\ rerun = FALSE
    /\ all_text = None
    /\ extracted = NoExtractors

\* none of the other operations is part of the run
\* no request has come in
WebIdle ==
    /\ requests = <<>>
    /\ threads = <<>>
    /\ temp_config_path = None

\* main() is not part of the run
MainIdle ==
    /\ config = None
    /\ scrape_filters = NotCalled
    /\ saved = None

OthersIdle ==
    /\ fuzzy = None
    /\ listing = None
    /\ prop_dict = None
    /\ WebIdle
    /\ MainIdle
    /\ MainIdle

NoTerms == [ price |-> None, bedrooms |-> None, bathrooms |-> None,
             garden |-> None, balcony |-> None, completeness |-> None ]

CalculateMatchScore ==
    /\ prop # None
    /\ score = None
    /\ score' = calculate_match_score(prop, filters)
    /\ terms' = IF calculate_match_score(prop, filters) = TypeError
                THEN NoTerms
                ELSE ScoreTerms(prop, filters)
    /\ UNCHANGED <<heap, properties, filters, filtered, calls, prop,
                   rerun, all_text, extracted,
                   otherVars>>

InitScore ==
    /\ heap = <<>>
    /\ properties = <<>>
    /\ filtered = None
    /\ calls = 0
    /\ \E call \in ScoreCalls :
        /\ prop = call[1]
        /\ filters = call[2]
    /\ terms = NoTerms
    /\ score = None
    /\ rerun = FALSE
    /\ all_text = None
    /\ extracted = NoExtractors
    /\ OthersIdle

NextScore == CalculateMatchScore

SpecScore == InitScore /\ [][NextScore]_vars

-----------------------------------------------------------------------------
(* Calls filtered = trawler.filter_properties(properties, filters) *)

FilterProperties ==
    /\ properties # <<>>
    /\ calls < MaxCalls
    /\ \E f \in FilterQueries :
        \E call \in {filter_properties(heap, properties, f)} :
            /\ filters' = f
            /\ heap' = call.heap
            /\ filtered' = call.result
    /\ calls' = calls + 1
    /\ rerun' = FALSE
    /\ UNCHANGED <<properties, prop, terms, score, all_text, extracted,
                   otherVars>>

InitFilter ==
    /\ heap = Pool
    /\ properties \in Lists
    /\ filters = <<>>
    /\ filtered = None
    /\ calls = 0
    /\ prop = None
    /\ terms = NoTerms
    /\ score = None
    /\ rerun = FALSE
    /\ all_text = None
    /\ extracted = NoExtractors
    /\ OthersIdle

NextFilter == FilterProperties

SpecFilter == InitFilter /\ [][NextFilter]_vars

-----------------------------------------------------------------------------
(* Calls of filter_properties with a keywords string of one to five words *)

KeywordQueries == {[keywords |-> Some(k)] : k \in KeywordStrings}

FilterKeywords ==
    /\ properties # <<>>
    /\ calls < MaxCalls
    /\ \E f \in KeywordQueries :
        \E call \in {filter_properties(heap, properties, f)} :
            /\ filters' = f
            /\ heap' = call.heap
            /\ filtered' = call.result
    /\ calls' = calls + 1
    /\ rerun' = FALSE
    /\ UNCHANGED <<properties, prop, terms, score, all_text, extracted,
                   otherVars>>

NextKeywords == FilterKeywords

SpecKeywords == InitFilter /\ [][NextKeywords]_vars

-----------------------------------------------------------------------------
(* A second call on the list the first returned, with the empty filters:   *)
(* filtered = trawler.filter_properties(filtered, {})                      *)

FilterAgain ==
    /\ calls > 0
    /\ calls < MaxCalls
    /\ \E call \in {filter_properties(heap, filtered, <<>>)} :
           /\ filters' = <<>>
           /\ heap' = call.heap
           /\ filtered' = call.result
    /\ properties' = filtered
    /\ calls' = calls + 1
    /\ rerun' = TRUE
    /\ UNCHANGED <<prop, terms, score, all_text, extracted,
                   otherVars>>

NextRerun == FilterProperties \/ FilterAgain

SpecRerun == InitFilter /\ [][NextRerun]_vars

-----------------------------------------------------------------------------
(* A second call on the list the first returned, with the filters of the   *)
(* first: filtered = trawler.filter_properties(filtered, filters)          *)

FilterSame ==
    /\ calls > 0
    /\ calls < MaxCalls
    /\ \E call \in {filter_properties(heap, filtered, filters)} :
           /\ heap' = call.heap
           /\ filtered' = call.result
    /\ properties' = filtered
    /\ calls' = calls + 1
    /\ rerun' = TRUE
    /\ UNCHANGED <<filters, prop, terms, score, all_text, extracted,
                   otherVars>>

NextSame == FilterProperties \/ FilterSame

SpecSame == InitFilter /\ [][NextSame]_vars

-----------------------------------------------------------------------------
(* Calls of filter_properties with filters that hold a key with the value  *)
(* None, as the search_params the web application writes do                *)

\* the search_params run_trawler writes for a request that gives none
AppFilters ==
    [ min_price |-> Some(0), max_price |-> Some(1000000),
      min_bedrooms |-> None, max_bedrooms |-> None,
      min_bathrooms |-> None, max_bathrooms |-> None,
      has_garden |-> None, has_balcony |-> None,
      exclude_student_accommodation |-> Some(TRUE),
      exclude_house_shares |-> Some(TRUE),
      exclude_retirement |-> Some(TRUE),
      keywords |-> None ]

NullQueries ==
    { AppFilters,
      [min_price |-> None],
      [max_price |-> None],
      [min_price |-> None, max_price |-> None],
      [min_price |-> Some(1000), max_price |-> None],
      [min_bedrooms |-> Some(2), max_bedrooms |-> None],
      [min_bedrooms |-> None, max_bedrooms |-> Some(2)],
      [min_bedrooms |-> None, max_bedrooms |-> None],
      [min_bathrooms |-> None, max_bathrooms |-> Some(1)],
      [has_garden |-> None],
      [has_garden |-> Some(TRUE), has_balcony |-> None],
      [keywords |-> None] }

FilterNull ==
    /\ properties # <<>>
    /\ calls < MaxCalls
    /\ \E f \in NullQueries :
        \E call \in {filter_properties(heap, properties, f)} :
            /\ filters' = f
            /\ heap' = call.heap
            /\ filtered' = call.result
    /\ calls' = calls + 1
    /\ rerun' = FALSE
    /\ UNCHANGED <<properties, prop, terms, score, all_text, extracted,
                   otherVars>>

NextNull == FilterNull

SpecNull == InitFilter /\ [][NextNull]_vars

-----------------------------------------------------------------------------
(* The extractors on the text of a listing:                                *)
(* price = self._extract_price(all_text), has_garden =                     *)
(* self._extract_garden(all_text), has_balcony =                           *)
(* self._extract_balcony(all_text)                                         *)

\* the texts handed to the extractors
Texts ==
    { "", "modern kitchen", "private garden included", "no garden",
      "Flat without garden", "no outdoor space", "no garden but has a terrace",
      "No gardens, no balconys", "Shared Garden and Private Balcony",
      "no balcony", "without balcony, with patio", "balconies and courtyard",
      "£1,200 pcm", "£300 pw", "£50", "£99,999,999",
      "£1,200 pcm (was £300 pw)", "Offers upwards of £250,000",
      "£50 admin fee, bills £20 per week", "£50 pw", "£20 pw",
      "£ 750 PM", "£1500 Per Month", "£400 per week", "£100", "£99 pcm",
      "£10,000,000", "£10,000,001", "£, call", "Price on application",
      "2 bed flat £895pcm no garden", "£90 pw or £1,500 pcm",
      "Deposit £50, rent £850" }

ExtractPrice ==
    /\ extracted.price = Pending
    /\ extracted' = [extracted EXCEPT !.price = Returned(_extract_price(all_text))]
    /\ UNCHANGED <<heap, properties, filters, filtered, calls, prop, terms, score,
                   rerun, all_text,
                   otherVars>>

ExtractGarden ==
    /\ extracted.has_garden = Pending
    /\ extracted' =
          [extracted EXCEPT !.has_garden = Returned(_extract_garden(all_text))]
    /\ UNCHANGED <<heap, properties, filters, filtered, calls, prop, terms, score,
                   rerun, all_text,
                   otherVars>>

ExtractBalcony ==
    /\ extracted.has_balcony = Pending
    /\ extracted' =
          [extracted EXCEPT !.has_balcony = Returned(_extract_balcony(all_text))]
    /\ UNCHANGED <<heap, properties, filters, filtered, calls, prop, terms, score,
                   rerun, all_text,
                   otherVars>>

InitExtract ==
    /\ heap = <<>>
    /\ properties = <<>>
    /\ filters = <<>>
    /\ filtered = None
    /\ calls = 0
    /\ prop = None
    /\ terms = NoTerms
    /\ score = None
    /\ rerun = FALSE
    /\ all_text \in {Some(t) : t \in Texts}
    /\ extracted = NotExtracted
    /\ OthersIdle

NextExtract == ExtractPrice \/ ExtractGarden \/ ExtractBalcony

SpecExtract == InitExtract /\ [][NextExtract]_vars

-----------------------------------------------------------------------------
(* Every extractor and classifier on one text, the text absent (None),     *)
(* empty, or a listing's                                                   *)

FieldTexts ==
    { None, Some(""), Some("2 bed flat"), Some("lovely home"),
      Some("3 Bedrooms and 2 bathrooms with garden, SW1A 1AA"),
      Some("Student halls near m1 1ae, no balcony"),
      Some("Double room in shared house, 1 bath, £120 pw"),
      Some("Retirement flat, over 55, £900 pcm, EC1A1BB") }

ExtractBedrooms ==
    /\ extracted.bedrooms = Pending
    /\ extracted' = [extracted EXCEPT !.bedrooms = Returned(_extract_bedrooms(all_text))]
    /\ UNCHANGED <<heap, properties, filters, filtered, calls, prop, terms, score,
                   rerun, all_text, otherVars>>

ExtractBathrooms ==
    /\ extracted.bathrooms = Pending
    /\ extracted' = [extracted EXCEPT !.bathrooms = Returned(_extract_bathrooms(all_text))]
    /\ UNCHANGED <<heap, properties, filters, filtered, calls, prop, terms, score,
                   rerun, all_text, otherVars>>

ExtractPostcode ==
    /\ extracted.postcode = Pending
    /\ extracted' = [extracted EXCEPT !.postcode = Returned(_extract_postcode(all_text))]
    /\ UNCHANGED <<heap, properties, filters, filtered, calls, prop, terms, score,
                   rerun, all_text, otherVars>>

IsStudentAccommodation ==
    /\ extracted.is_student = Pending
    /\ extracted' = [extracted EXCEPT !.is_student = Returned(_is_student_accommodation(all_text))]
    /\ UNCHANGED <<heap, properties, filters, filtered, calls, prop, terms, score,
                   rerun, all_text, otherVars>>

IsHouseShare ==
    /\ extracted.is_house_share = Pending
    /\ extracted' = [extracted EXCEPT !.is_house_share = Returned(_is_house_share(all_text))]
    /\ UNCHANGED <<heap, properties, filters, filtered, calls, prop, terms, score,
                   rerun, all_text, otherVars>>

IsRetirementProperty ==
    /\ extracted.is_retirement = Pending
    /\ extracted' = [extracted EXCEPT !.is_retirement = Returned(_is_retirement_property(all_text))]
    /\ UNCHANGED <<heap, properties, filters, filtered, calls, prop, terms, score,
                   rerun, all_text, otherVars>>

InitFields ==
    /\ heap = <<>>
    /\ properties = <<>>
    /\ filters = <<>>
    /\ filtered = None
    /\ calls = 0
    /\ prop = None
    /\ terms = NoTerms
    /\ score = None
    /\ rerun = FALSE
    /\ all_text \in FieldTexts
    /\ extracted = NotExtracted
    /\ OthersIdle

NextFields ==
    \/ ExtractPrice
    \/ ExtractBedrooms
    \/ ExtractBathrooms
    \/ ExtractGarden
    \/ ExtractBalcony
    \/ ExtractPostcode
    \/ IsStudentAccommodation
    \/ IsHouseShare
    \/ IsRetirementProperty

SpecFields == InitFields /\ [][NextFields]_vars

-----------------------------------------------------------------------------
(* One pass of the loop over listings in scrape_spareroom, and the         *)
(* to_dict of the Property it appends                                      *)

\* a str of n characters
RECURSIVE Repeat(_, _)
Repeat(c, n) ==
    IF n = 0 THEN ""
    ELSE IF n % 2 = 0 THEN Repeat(c \o c, n \div 2)
    ELSE c \o Repeat(c, n - 1)

\* texts of a few characters, of MaxDescription characters, and longer
ShortTitles == { "Flat", "2 bed flat", "Garden apartment in Leeds" }
LongLengths == { MaxDescription - 1, MaxDescription, MaxDescription + 1, MaxDescription + 100 }
Titles == ShortTitles \cup { "Big house " \o Repeat("t", n - 10) : n \in LongLengths }
Descriptions ==
    { "", "Lovely garden and parking" } \cup { Repeat("d", n) : n \in LongLengths }

Listings ==
    { [ title |-> title, price_elem |-> price_elem, address_elem |-> address_elem,
        desc_elem |-> desc_elem, all_text |-> get_text,
        url |-> "https://www.spareroom.co.uk/flatshare/1", image_url |-> None ] :
      title \in Titles,
      desc_elem \in Optional(Descriptions),
      price_elem \in { None, Some("£900 pcm") },
      address_elem \in { None, Some("Leeds LS1 4AP") },
      get_text \in { "2 bed flat £200 pw no balcony" } }

\* the location searched
SearchLocation == "London"

\* "for listing in listings[:500]:" at the listing
ParseListing ==
    /\ listing # None
    /\ IF Len(listing[1].title) < 5
       THEN UNCHANGED <<heap, properties>>
       ELSE /\ heap' = Append(heap, property_obj(listing[1], SearchLocation))
            /\ properties' = Append(properties, Len(heap) + 1)
    /\ listing' = None
    /\ UNCHANGED <<filters, filtered, calls, prop, terms, score, rerun, all_text,
                   extracted, fuzzy, prop_dict, webVars, mainVars>>

\* the time stamps datetime.now().isoformat() gives
Clock == { "2024-01-01T09:00:00", "2024-01-01T09:00:01" }

\* prop.to_dict() of a Property of the list
ToDict ==
    /\ prop_dict = None
    /\ \E n \in 1..Len(properties), now \in Clock :
           prop_dict' = Some(to_dict(heap[properties[n]], now))
    /\ UNCHANGED <<callVars, fuzzy, listing, webVars, mainVars>>

InitScrape ==
    /\ CallsIdle
    /\ fuzzy = None
    /\ listing \in { Some(l) : l \in Listings }
    /\ prop_dict = None
    /\ WebIdle
    /\ MainIdle

NextScrape == ParseListing \/ ToDict

SpecScrape == InitScrape /\ [][NextScrape]_vars

-----------------------------------------------------------------------------
(* The system test on one Property: filter_properties on the list of it,   *)
(* and its to_dict, before or after                                        *)

\* test_prop with each Optional field as the test sets it or None
TestProperties ==
    { TestProperty(price, bedrooms, bathrooms, has_garden, has_balcony, image_url, postcode) :
        price \in { None, Some(1500) },
        bedrooms \in { None, Some(2) },
        bathrooms \in { None, Some(1) },
        has_garden \in { None, Some(TRUE) },
        has_balcony \in { None, Some(FALSE) },
        image_url \in ImageUrls,
        postcode \in Postcodes }

InitStore ==
    /\ heap \in { <<test_prop>> : test_prop \in TestProperties }
    /\ properties = <<1>>
    /\ filters = <<>>
    /\ filtered = None
    /\ calls = 0
    /\ prop = None
    /\ terms = NoTerms
    /\ score = None
    /\ rerun = FALSE
    /\ all_text = None
    /\ extracted = NoExtractors
    /\ OthersIdle

NextStore == FilterProperties \/ ToDict

SpecStore == InitStore /\ [][NextStore]_vars

-----------------------------------------------------------------------------
(* A direct call self._fuzzy_match_keyword(keyword, text) *)

\* the keywords and the texts of the calls
FuzzyKeywords ==
    { "a", "it", "bed", "kit", "flat", "garden", "balcony", "parking" }

FuzzyTexts ==
    { "", "kit", "it", "graden", "garden flat", "no parkin here",
      "private balcny", "bed sit", "it is a flt" }

FuzzyMatch ==
    /\ fuzzy # None
    /\ fuzzy[1].result = Pending
    /\ fuzzy' = Some([fuzzy[1] EXCEPT
                        !.result = Returned(_fuzzy_match_keyword(fuzzy[1].keyword,
                                                                 fuzzy[1].text))])
    /\ UNCHANGED <<callVars, listing, prop_dict, webVars, mainVars>>

InitFuzzy ==
    /\ CallsIdle
    /\ listing = None
    /\ prop_dict = None
    /\ WebIdle
    /\ MainIdle
    /\ fuzzy \in { Some([keyword |-> k, text |-> t, result |-> Pending]) :
                      k \in FuzzyKeywords, t \in FuzzyTexts }

NextFuzzy == FuzzyMatch

SpecFuzzy == InitFuzzy /\ [][NextFuzzy]_vars

-----------------------------------------------------------------------------
(* POST /api/run-trawler: the background thread of each request, the file  *)
(* temp_config.json they all write, and the main.py each of them launches  *)

\* the search_params a request carries
RequestParams ==
    { <<>>,
      [ locations |-> Some(<<"Leeds">>), min_bedrooms |-> Some(2) ],
      [ locations |-> Some(<<"York">>), keywords |-> Some("Garden"),
        exclude_house_shares |-> Some(FALSE) ] }

\* the dict run_trawler_async writes for the search_params of its request
temp_config(search_params) ==
    [ search_params |->
        [ locations |-> Get(search_params, "locations", Some(<<"London">>)),
          min_price |-> Get(search_params, "min_price", Some(0)),
          max_price |-> Get(search_params, "max_price", Some(1000000)),
          property_types |->
              Get(search_params, "property_types", Some(<<"house", "flat">>)),
          max_pages |-> Get(search_params, "max_pages", Some(20)),
          min_bedrooms |-> Get(search_params, "min_bedrooms", None),
          max_bedrooms |-> Get(search_params, "max_bedrooms", None),
          min_bathrooms |-> Get(search_params, "min_bathrooms", None),
          max_bathrooms |-> Get(search_params, "max_bathrooms", None),
          has_garden |-> Get(search_params, "has_garden", None),
          has_balcony |-> Get(search_params, "has_balcony", None),
          exclude_student_accommodation |->
              Get(search_params, "exclude_student_accommodation", Some(TRUE)),
          exclude_house_shares |->
              Get(search_params, "exclude_house_shares", Some(TRUE)),
          exclude_retirement |->
              Get(search_params, "exclude_retirement", Some(TRUE)),
          keywords |-> Get(search_params, "keywords", None) ],
      output_dir |-> "output",
      delay_between_requests |-> 3 ]

\* the dict load_config returns when the file is not there
DefaultConfig ==
    [ search_params |->
        [ locations |-> Some(<<"London">>),
          property_types |-> Some(<<"house", "flat">>),
          max_pages |-> Some(5) ],
      output_dir |-> "output",
      delay_between_requests |-> 2 ]

\* what the load_config of a run's main.py came to
NotLoaded == [ how |-> "not loaded" ]
Loaded(dict) == [ how |-> "loaded", config |-> dict ]
UsingDefaults == [ how |-> "defaults", config |-> DefaultConfig ]
Raised(error) == [ how |-> "raised", error |-> error ]

\* a file: the inode the name stands for, named by the thread whose open()
\* created it, and its text: None while empty, else the JSON of a dict, held
\* as the dict json.load gives for it
File(inode, text) == [ inode |-> inode, text |-> text ]

\* threads[r] at pc moves on to next
At(r, pc) == r \in DOMAIN threads /\ threads[r].pc = pc
Goto(r, next) == threads' = [threads EXCEPT ![r].pc = next]

\* run_trawler(): the request's search_params are read and its thread started
RunTrawler ==
    /\ Len(requests) < MaxRequests
    /\ \E search_params \in RequestParams :
           requests' = Append(requests, search_params)
    /\ threads' = Append(threads, [ pc |-> "open", f |-> None, config |-> NotLoaded ])
    /\ UNCHANGED <<temp_config_path, callVars, fuzzy, listing, prop_dict,
                       mainVars>>

\* "with open(temp_config_path, 'w') as f:" creates the file or empties the
\* one that is there
OpenConfig ==
    \E r \in DOMAIN threads :
        /\ At(r, "open")
        /\ temp_config_path' =
               IF temp_config_path = None THEN Some(File(r, None))
               ELSE Some(File(temp_config_path[1].inode, None))
        /\ threads' = [threads EXCEPT
                          ![r].pc = "dump",
                          ![r].f = IF temp_config_path = None THEN Some(r)
                                   ELSE Some(temp_config_path[1].inode)]
        /\ UNCHANGED <<requests, callVars, fuzzy, listing, prop_dict,
                       mainVars>>

\* json_lib.dump(temp_config, f, indent=2) and the close of f: the text goes
\* to the file f was opened on, which the name may no longer stand for
DumpConfig ==
    \E r \in DOMAIN threads :
        /\ At(r, "dump")
        /\ temp_config_path' =
               IF temp_config_path # None /\ Some(temp_config_path[1].inode) = threads[r].f
               THEN Some(File(temp_config_path[1].inode, Some(temp_config(requests[r]))))
               ELSE temp_config_path
        /\ Goto(r, "run")
        /\ UNCHANGED <<requests, callVars, fuzzy, listing, prop_dict,
                       mainVars>>

\* subprocess.run starts main.py, whose load_config tests
\* "if not os.path.exists(config_path):"
ConfigExists ==
    \E r \in DOMAIN threads :
        /\ At(r, "run")
        /\ threads' = [threads EXCEPT
                          ![r].pc = IF temp_config_path = None THEN "scrape" ELSE "load",
                          ![r].config = IF temp_config_path = None THEN UsingDefaults
                                        ELSE NotLoaded]
        /\ UNCHANGED <<requests, temp_config_path, callVars, fuzzy, listing, prop_dict,
                       mainVars>>

\* "with open(config_path, 'r') as f: return json.load(f)"; an exception ends
\* main.py, and check=True takes the thread to its except clause
LoadConfig ==
    \E r \in DOMAIN threads :
        /\ At(r, "load")
        /\ threads' = [threads EXCEPT
                          ![r].pc = IF temp_config_path = None \/ temp_config_path[1].text = None
                                    THEN "done" ELSE "scrape",
                          ![r].config =
                              IF temp_config_path = None THEN Raised("FileNotFoundError")
                              ELSE IF temp_config_path[1].text = None
                              THEN Raised("JSONDecodeError")
                              ELSE Loaded(temp_config_path[1].text[1])]
        /\ UNCHANGED <<requests, temp_config_path, callVars, fuzzy, listing, prop_dict,
                       mainVars>>

\* main.py scrapes, saves and exits; subprocess.run returns
MainExits ==
    \E r \in DOMAIN threads :
        /\ At(r, "scrape")
        /\ Goto(r, "cleanup")
        /\ UNCHANGED <<requests, temp_config_path, callVars, fuzzy, listing, prop_dict,
                       mainVars>>

\* "if os.path.exists(temp_config_path):"
CleanupExists ==
    \E r \in DOMAIN threads :
        /\ At(r, "cleanup")
        /\ Goto(r, IF temp_config_path = None THEN "done" ELSE "remove")
        /\ UNCHANGED <<requests, temp_config_path, callVars, fuzzy, listing, prop_dict,
                       mainVars>>

\* "os.remove(temp_config_path)"; its FileNotFoundError is caught and printed
RemoveConfig ==
    \E r \in DOMAIN threads :
        /\ At(r, "remove")
        /\ temp_config_path' = None
        /\ Goto(r, "done")
        /\ UNCHANGED <<requests, callVars, fuzzy, listing, prop_dict,
                       mainVars>>

InitWeb ==
    /\ CallsIdle
    /\ OthersIdle

NextWeb ==
    \/ RunTrawler
    \/ OpenConfig
    \/ DumpConfig
    \/ ConfigExists
    \/ LoadConfig
    \/ MainExits
    \/ CleanupExists
    \/ RemoveConfig

SpecWeb == InitWeb /\ [][NextWeb]_vars

-----------------------------------------------------------------------------
(* main(): the filters dict it builds from the search_params of the config *)
(* it loaded, its call of scrape_all and what it hands to storage; and a   *)
(* direct call of scrape_all                                               *)

\* the search_params of the configs main() loads: the built-in defaults, what
\* the web application writes for a request, and files written by hand
NullExcludes ==
    [ exclude_student_accommodation |-> None, exclude_house_shares |-> None,
      exclude_retirement |-> None ]

Configs ==
    { DefaultConfig.search_params }
    \cup { temp_config(search_params).search_params : search_params \in RequestParams }
    \cup { temp_config(NullExcludes @@ [min_price |-> None, max_price |-> None]).search_params,
           temp_config([exclude_retirement |-> None]).search_params,
           [locations |-> Some(<<"Leeds">>)] @@ NullExcludes,
           [exclude_house_shares |-> None, has_garden |-> Some(TRUE)],
           [min_price |-> Some(1000), max_price |-> Some(2000),
            min_bedrooms |-> Some(2), exclude_student_accommodation |-> Some(TRUE)] }

\* "filters = {...}" and "filters = {k: v for k, v in filters.items() if v is not None}"
main_filters(search_params) ==
    WithoutNone(
        [ min_bedrooms |-> Get(search_params, "min_bedrooms", None),
          max_bedrooms |-> Get(search_params, "max_bedrooms", None),
          min_bathrooms |-> Get(search_params, "min_bathrooms", None),
          max_bathrooms |-> Get(search_params, "max_bathrooms", None),
          has_garden |-> Get(search_params, "has_garden", None),
          has_balcony |-> Get(search_params, "has_balcony", None),
          min_price |-> Get(search_params, "min_price", None),
          max_price |-> Get(search_params, "max_price", None),
          exclude_student_accommodation |->
              Get(search_params, "exclude_student_accommodation", Some(FALSE)),
          exclude_house_shares |->
              Get(search_params, "exclude_house_shares", Some(FALSE)),
          exclude_retirement |->
              Get(search_params, "exclude_retirement", Some(FALSE)),
          keywords |-> Get(search_params, "keywords", None) ])

\* Python truthiness of an Optional[dict]: None and {} are falsy
TruthyDict(opt) == opt # None /\ opt[1] # <<>>

\* scrape_all that filters whatever filters is
scrape_allUnconditional(h, all_properties, f) ==
    filter_properties(h, all_properties,
                      IF f = None THEN <<>> ELSE f[1])

\* scrape_all once the scrapers have returned all_properties: the heap after
\* the call and what the call returns
scrape_all(h, all_properties, f) ==
    IF TruthyDict(f)
    THEN filter_properties(h, all_properties, f[1])
    ELSE [ heap |-> h, result |-> all_properties ]

\* filter_properties raised inside scrape_all
scrape_allRaised(h, all_properties, f) ==
    /\ TruthyDict(f)
    /\ FilterLoop(h, all_properties, f[1], 1, <<>>).raised

CalledWith(args) == <<"called", args>>

\* main() from the loaded config to the calls of storage
Main ==
    /\ config # None
    /\ scrape_filters = NotCalled
    /\ \E built \in {main_filters(config[1])} :
        \E handed \in {IF built # <<>> THEN Some(built) ELSE None} :
            \E call \in {scrape_all(heap, properties, handed)} :
                /\ filters' = built
                /\ scrape_filters' = CalledWith(handed)
                /\ heap' = call.heap
                /\ filtered' = call.result
                /\ saved' = IF scrape_allRaised(heap, properties, handed)
                            THEN None
                            ELSE IF call.result # <<>> THEN Some(call.result)
                            ELSE None
    /\ calls' = calls + 1
    /\ UNCHANGED <<properties, config, prop, terms, score, rerun, all_text,
                   extracted, fuzzy, listing, prop_dict, webVars>>

\* the filters arguments of the direct calls of scrape_all
ScrapeFilters == { None } \cup { Some(f) : f \in FilterQueries }

\* properties = trawler.scrape_all(..., filters=...), the scrapers having
\* returned the list properties
ScrapeAll ==
    /\ config = None
    /\ scrape_filters = NotCalled
    /\ \E handed \in ScrapeFilters :
        \E call \in {scrape_all(heap, properties, handed)} :
            /\ filters' = IF handed = None THEN <<>> ELSE handed[1]
            /\ scrape_filters' = CalledWith(handed)
            /\ heap' = call.heap
            /\ filtered' = call.result
    /\ calls' = calls + 1
    /\ UNCHANGED <<properties, config, saved, prop, terms, score, rerun,
                   all_text, extracted, fuzzy, listing, prop_dict, webVars>>

InitMain ==
    /\ heap = Pool
    /\ properties \in Lists \cup { <<>> }
    /\ filters = <<>>
    /\ filtered = None
    /\ calls = 0
    /\ prop = None
    /\ terms = NoTerms
    /\ score = None
    /\ rerun = FALSE
    /\ all_text = None
    /\ extracted = NoExtractors
    /\ fuzzy = None
    /\ listing = None
    /\ prop_dict = None
    /\ WebIdle
    /\ config \in Optional(Configs)
    /\ scrape_filters = NotCalled
    /\ saved = None

NextMain == Main \/ ScrapeAll

SpecMain == InitMain /\ [][NextMain]_vars

-----------------------------------------------------------------------------
(* The direct calls of the scorer and the calls of the filter *)

InitCalls == InitScore \/ InitFilter

NextCalls == CalculateMatchScore \/ FilterProperties

SpecCalls == InitCalls /\ [][NextCalls]_vars

-----------------------------------------------------------------------------
(* Every kind of call *)

Init ==
    \/ InitScore \/ InitFilter \/ InitExtract \/ InitFields \/ InitFuzzy
    \/ InitScrape \/ InitStore \/ InitWeb \/ InitMain

Next ==
    \/ CalculateMatchScore
    \/ FilterProperties
    \/ FilterKeywords
    \/ FilterAgain
    \/ FilterSame
    \/ FilterNull
    \/ ExtractPrice
    \/ ExtractGarden
    \/ ExtractBalcony
    \/ ExtractBedrooms
    \/ ExtractBathrooms
    \/ ExtractPostcode
    \/ IsStudentAccommodation
    \/ IsHouseShare
    \/ IsRetirementProperty
    \/ FuzzyMatch
    \/ ParseListing
    \/ ToDict
    \/ RunTrawler
    \/ OpenConfig
    \/ DumpConfig
    \/ ConfigExists
    \/ LoadConfig
    \/ MainExits
    \/ CleanupExists
    \/ RemoveConfig
    \/ Main
    \/ ScrapeAll

Spec == Init /\ [][Next]_vars

-----------------------------------------------------------------------------
(* Properties *)

Range(seq) == {seq[i] : i \in 1..Len(seq)}
Given_(f, k) == k \in DOMAIN f
InRange(s) == FracLeq(Num(0), s) /\ FracLeq(s, Num(100))
Called == prop # None /\ score # None
Filtered == calls > 0

\* the record and the filters of the system test
TestRecord ==
    TestProperty(Some(1500), Some(2), Some(1), Some(TRUE), Some(FALSE),
                 Some("http://test.com/image.jpg"), Some("SW1A 1AA"))

\* C1: with every bound of the filters omitted or a number,
\* calculate_match_score returns a value in [0, 100], and every match_score
\* that filter_properties has set is in [0, 100] after any sequence of calls.
C1_ScoreInRange ==
    /\ Called => (score # TypeError /\ InRange(score))
    /\ \A id \in DOMAIN heap :
          heap[id].match_score # None => InRange(heap[id].match_score[1])

\* a second filter_properties call has run and left a score of 75 and
\* another, different score on the heap
C1_Witness ==
    /\ calls = 2
    /\ \E id, other \in DOMAIN heap :
          /\ heap[id].match_score = Some(Num(75))
          /\ heap[other].match_score # None
          /\ heap[other].match_score # Some(Num(75))

\* C2: a filter_properties call leaves a record that fails a gate out of its
\* result and leaves the record's match_score as it was; every record it
\* returns passed the gates and carries the score computed in this call.
C2_DroppedUnscored ==
    [][ \A id \in DOMAIN heap :
          IF id \in Range(properties) /\ PassesGates(heap[id], filters')
          THEN /\ id \in Range(filtered')
               /\ heap'[id].match_score = Some(calculate_match_score(heap[id], filters'))
          ELSE /\ id \notin Range(filtered')
               /\ heap'[id].match_score = heap[id].match_score ]_vars

\* after two calls the list holds a record that was never scored, a record
\* dropped by the second call that keeps the score of the first, and a
\* record the second call returned
C2_Witness ==
    /\ calls = 2
    /\ \E a, b, c \in Range(properties) :
          /\ a \notin Range(filtered) /\ heap[a].match_score = None
          /\ b \notin Range(filtered) /\ heap[b].match_score # None
          /\ c \in Range(filtered)

\* position of an object in the list handed to the call
Position(id) == CHOOSE i \in 1..Len(properties) : properties[i] = id

\* C3: the returned list is in non-increasing match_score order, and
\* records of equal match_score are in the order of the input list.
C3_SortedStable ==
    Filtered =>
        \A i, j \in 1..Len(filtered) :
            i < j =>
                /\ FracLeq(heap[filtered[j]].match_score[1],
                           heap[filtered[i]].match_score[1])
                /\ heap[filtered[i]].match_score = heap[filtered[j]].match_score
                      => Position(filtered[i]) < Position(filtered[j])

\* a call returned three records: two of equal score, then the
\* lower-scored one that the input list had first
C3_Witness ==
    /\ Filtered
    /\ Len(filtered) = 3
    /\ filtered[3] = properties[1]
    /\ heap[filtered[1]].match_score = heap[filtered[2]].match_score
    /\ heap[filtered[2]].match_score # heap[filtered[3]].match_score

\* C4: for the filters and the record of the system test,
\* calculate_match_score returns 75 = 30 + 15 + 10 + 10 + 0 + 10, and
\* filter_properties keeps the record with match_score 75.
C4_SystemTestScore ==
    /\ (Called /\ prop = TestRecord /\ filters = TestFilters) =>
          /\ score = Num(75)
          /\ terms = [ price |-> Num(30), bedrooms |-> Num(15), bathrooms |-> Num(10),
                       garden |-> Num(10), balcony |-> Num(0), completeness |-> Num(10) ]
    /\ (Filtered /\ filters = TestFilters /\ 1 \in Range(properties)) =>
          /\ 1 \in Range(filtered)
          /\ heap[1].match_score = Some(Num(75))

\* the system test's filter_properties call on the list of its one record
C4_Witness ==
    /\ calls = 1
    /\ filters = TestFilters
    /\ properties = <<1>>
    /\ [heap[1] EXCEPT !.match_score = None] = TestRecord
    /\ filtered = <<1>>

\* C5: calculate_match_score is strictly positive for every record and
\* every filters dict whose bounds are omitted or numbers.
C5_ScorePositive ==
    Called => (score # TypeError /\ FracLess(Num(0), score))

\* a priced record with nothing else set, priced outside the asked range,
\* scores the lowest: 2
C5_Witness ==
    /\ Called
    /\ prop.price # None
    /\ terms.price = Num(0)
    /\ score = Num(2)

\* C6: the price section adds 5 for a record with no price; with min_price
\* < max_price both given it adds 30 * max(0, 1 - |price - midpoint| /
\* (max - min)), so 30 at the midpoint; with min_price = max_price it adds
\* 30 when the price equals them and 0 otherwise.
C6_PriceBothBounds ==
    Called =>
        /\ prop.price = None => terms.price = Num(5)
        /\ (prop.price # None /\ Given_(filters, "min_price") /\ Given_(filters, "max_price")) =>
              LET price == prop.price[1]
                  lo == filters["min_price"][1]
                  hi == filters["max_price"][1]
                  diff2 == Abs(2 * price - (lo + hi))
              IN  /\ (lo < hi /\ diff2 >= 2 * (hi - lo)) => terms.price = Num(0)
                  /\ (lo < hi /\ diff2 < 2 * (hi - lo)) =>
                        terms.price[1] * 2 * (hi - lo)
                            = terms.price[2] * 30 * (2 * (hi - lo) - diff2)
                  /\ (lo < hi /\ 2 * price = lo + hi) => terms.price = Num(30)
                  /\ lo = hi => terms.price = IF price = lo THEN Num(30) ELSE Num(0)

\* a price at the upper end of the range 1000..2000 earned half of the 30
C6_Witness ==
    /\ Called
    /\ prop.price = Some(2000)
    /\ Given_(filters, "min_price") /\ filters["min_price"] = Some(1000)
    /\ Given_(filters, "max_price") /\ filters["max_price"] = Some(2000)
    /\ terms.price = Num(15)

\* C7: with max_price given and min_price omitted, the price section adds
\* 30 to a priced record with price <= max_price and 0 otherwise.
C7_OnlyMaxPrice ==
    (Called /\ prop.price # None
        /\ ~Given_(filters, "min_price") /\ Given_(filters, "max_price")) =>
        terms.price = IF prop.price[1] <= filters["max_price"][1] THEN Num(30) ELSE Num(0)

\* C8: with min_price and max_price both omitted, the price section adds a
\* flat 15 to a priced record.
C8_NoPriceBound ==
    (Called /\ prop.price # None
        /\ ~Given_(filters, "min_price") /\ ~Given_(filters, "max_price")) =>
        terms.price = Num(15)

\* the rooms rule of the claim: value is the record's Optional count, lo
\* and hi the bounds as the filters give them
RoomsRule(value, f, min_key, max_key) ==
    LET lo == IF Given_(f, min_key) THEN f[min_key][1] ELSE 0
    IN  IF ~Given_(f, min_key) /\ ~Given_(f, max_key)
        THEN IF value # None THEN 10 ELSE 0
        ELSE IF value = None THEN 2
        ELSE IF value[1] < lo \/ (Given_(f, max_key) /\ value[1] > f[max_key][1]) THEN 5
        ELSE IF Given_(f, max_key) /\ 2 * value[1] = lo + f[max_key][1] THEN 20
        ELSE IF ~Given_(f, max_key) /\ value[1] = lo THEN 20
        ELSE 15

\* C9: the bedrooms section, and the bathrooms section likewise, adds 10 /
\* 0 for a present / missing value when the filters give no bound; with a
\* bound (omitted min = 0, omitted max = infinity) it adds 2 for a missing
\* value, 5 for a value outside the range, 20 for the midpoint of the range
\* (the minimum when the maximum is omitted) and 15 elsewhere in the range.
C9_RoomsScore ==
    Called =>
        /\ terms.bedrooms = Num(RoomsRule(prop.bedrooms, filters, "min_bedrooms", "max_bedrooms"))
        /\ terms.bathrooms = Num(RoomsRule(prop.bathrooms, filters, "min_bathrooms", "max_bathrooms"))

\* one bedroom under max_bedrooms 2 alone is the midpoint of 0..2, and one
\* bathroom under min_bathrooms 2 is outside the range
C9_Witness ==
    /\ Called
    /\ prop.bedrooms = Some(1)
    /\ ~Given_(filters, "min_bedrooms")
    /\ Given_(filters, "max_bedrooms") /\ filters["max_bedrooms"] = Some(2)
    /\ terms.bedrooms = Num(20)
    /\ prop.bathrooms = Some(1)
    /\ Given_(filters, "min_bathrooms")
    /\ terms.bathrooms = Num(5)

\* the feature rule of the claim
FeatureRule(value, f, key) ==
    IF Given_(f, key) /\ f[key] = Some(TRUE)
    THEN IF value = Some(TRUE) THEN 10 ELSE IF value = Some(FALSE) THEN 0 ELSE 3
    ELSE IF Given_(f, key) /\ f[key] = Some(FALSE)
    THEN IF value = Some(TRUE) THEN 3 ELSE 0
    ELSE 0

\* C10: the garden section, and the balcony section likewise, adds 10 / 0 /
\* 3 for a record value true / false / unset when the filters ask for true,
\* 3 for a record value true and 0 otherwise when they ask for false, and 0
\* when they give no opinion.
C10_FeatureScore ==
    Called =>
        /\ terms.garden = Num(FeatureRule(prop.has_garden, filters, "has_garden"))
        /\ terms.balcony = Num(FeatureRule(prop.has_balcony, filters, "has_balcony"))

\* a garden not asked for earned the bonus of 3 and a balcony asked for but
\* unset earned the benefit of the doubt
C10_Witness ==
    /\ Called
    /\ Given_(filters, "has_garden") /\ filters["has_garden"] = Some(FALSE)
    /\ prop.has_garden = Some(TRUE)
    /\ terms.garden = Num(3)
    /\ Given_(filters, "has_balcony") /\ filters["has_balcony"] = Some(TRUE)
    /\ prop.has_balcony = None
    /\ terms.balcony = Num(3)

\* the sum of the six sections of the last direct call
TermsSum ==
    FracAdd(terms.price, FracAdd(terms.bedrooms, FracAdd(terms.bathrooms,
        FracAdd(terms.garden, FracAdd(terms.balcony, terms.completeness)))))

\* C11: the six sections of calculate_match_score add up to a value in
\* [0, 100], each within its own maximum (30, 20, 20, 10, 10, 10), so that
\* the value returned is the sum itself: the clamp changes nothing.
C11_SumNeedsNoClamp ==
    (Called /\ score # TypeError) =>
        /\ FracLeq(Num(0), terms.price) /\ FracLeq(terms.price, Num(30))
        /\ FracLeq(Num(0), terms.bedrooms) /\ FracLeq(terms.bedrooms, Num(20))
        /\ FracLeq(Num(0), terms.bathrooms) /\ FracLeq(terms.bathrooms, Num(20))
        /\ FracLeq(Num(0), terms.garden) /\ FracLeq(terms.garden, Num(10))
        /\ FracLeq(Num(0), terms.balcony) /\ FracLeq(terms.balcony, Num(10))
        /\ FracLeq(Num(0), terms.completeness) /\ FracLeq(terms.completeness, Num(10))
        /\ InRange(TermsSum)
        /\ score = TermsSum

\* every section at its maximum: the sum reaches 100 exactly
C11_Witness ==
    /\ Called /\ score # TypeError
    /\ terms.price = Num(30) /\ terms.bedrooms = Num(20) /\ terms.bathrooms = Num(20)
    /\ terms.garden = Num(10) /\ terms.balcony = Num(10)
    /\ terms.completeness = Num(10)
    /\ TermsSum = Num(100)
    /\ score = Num(100)

\* what the last filter_properties call returned, as a set; the records it
\* was handed
Kept == Range(filtered)
Handed == Range(properties)

\* the key is in the filters with a value
Asked(f, k) == Given_(f, k) /\ f[k] # None

\* the min gate and the max gate of the claim
BelowMin(value, f, key) == Asked(f, key) /\ (value = None \/ value[1] < f[key][1])
AboveMax(value, f, key) == Asked(f, key) /\ value # None /\ value[1] > f[key][1]

RangeKeys ==
    {"min_bedrooms", "max_bedrooms", "min_bathrooms", "max_bathrooms",
     "min_price", "max_price"}

RangeDrops(p, f) ==
    \/ BelowMin(p.bedrooms, f, "min_bedrooms") \/ AboveMax(p.bedrooms, f, "max_bedrooms")
    \/ BelowMin(p.bathrooms, f, "min_bathrooms") \/ AboveMax(p.bathrooms, f, "max_bathrooms")
    \/ BelowMin(p.price, f, "min_price") \/ AboveMax(p.price, f, "max_price")

\* C12: for bedrooms, bathrooms and price, filter_properties drops a record
\* whose value is unset or below a min the filters give, and a record whose
\* value is present and above a max they give; under filters that give
\* range bounds only it drops no other record, so a record with an unset
\* value passes a max gate.
C12_RangeGates ==
    Filtered =>
        \A id \in Handed :
            /\ RangeDrops(heap[id], filters) => id \notin Kept
            /\ (DOMAIN filters \subseteq RangeKeys /\ ~RangeDrops(heap[id], filters))
                  => id \in Kept

\* under max_bedrooms = 2 alone the record without bedrooms was kept and
\* the record with three bedrooms dropped
C12_Witness ==
    /\ Filtered
    /\ filters = [max_bedrooms |-> Some(2)]
    /\ \E id, other \in Handed :
          /\ heap[id].bedrooms = None /\ id \in Kept
          /\ heap[other].bedrooms = Some(3) /\ other \notin Kept

\* C13: when the filters give has_garden (has_balcony) as true or false,
\* every record filter_properties keeps has exactly that value; a record
\* with the value unset is dropped.
C13_FeatureGates ==
    Filtered =>
        \A id \in Handed :
            /\ (Asked(filters, "has_garden") /\ id \in Kept)
                  => (heap[id].has_garden # None
                      /\ heap[id].has_garden = filters["has_garden"])
            /\ (Asked(filters, "has_balcony") /\ id \in Kept)
                  => (heap[id].has_balcony # None
                      /\ heap[id].has_balcony = filters["has_balcony"])

\* under has_garden = false the record with no garden value and the record
\* with a garden were dropped and the record without a garden kept
C13_Witness ==
    /\ Filtered
    /\ filters = [has_garden |-> Some(FALSE)]
    /\ \E unset, with, without \in Handed :
          /\ heap[unset].has_garden = None /\ unset \notin Kept
          /\ heap[with].has_garden = Some(TRUE) /\ with \notin Kept
          /\ heap[without].has_garden = Some(FALSE) /\ without \in Kept

ExcludeKeys ==
    {"exclude_student_accommodation", "exclude_house_shares", "exclude_retirement"}

\* the exclusion the filters ask for with a flag that is true hits the record
Excluded(p, f) ==
    \/ /\ Asked(f, "exclude_student_accommodation")
       /\ f["exclude_student_accommodation"] = Some(TRUE)
       /\ student_text[<<p.title, p.description>>]
    \/ /\ Asked(f, "exclude_house_shares")
       /\ f["exclude_house_shares"] = Some(TRUE)
       /\ house_share_text[<<p.title, p.description>>]
    \/ /\ Asked(f, "exclude_retirement")
       /\ f["exclude_retirement"] = Some(TRUE)
       /\ retirement_text[<<p.title, p.description>>]

\* C14: filter_properties drops a record of a category whose exclude flag
\* is true; under filters that give exclude flags only it drops no other
\* record, so a flag that is omitted or false drops nothing.
C14_ExclusionGates ==
    Filtered =>
        \A id \in Handed :
            /\ Excluded(heap[id], filters) => id \notin Kept
            /\ (DOMAIN filters \subseteq ExcludeKeys /\ ~Excluded(heap[id], filters))
                  => id \in Kept

\* with the student and house share flags false and the retirement flag
\* true, the student record and the house share were kept and the
\* retirement record dropped
C14_Witness ==
    /\ Filtered
    /\ Asked(filters, "exclude_student_accommodation")
    /\ filters["exclude_student_accommodation"] = Some(FALSE)
    /\ Asked(filters, "exclude_house_shares")
    /\ filters["exclude_house_shares"] = Some(FALSE)
    /\ Asked(filters, "exclude_retirement")
    /\ filters["exclude_retirement"] = Some(TRUE)
    /\ \E student, share, retired \in Handed :
          /\ student_text[<<heap[student].title, heap[student].description>>]
          /\ student \in Kept
          /\ house_share_text[<<heap[share].title, heap[share].description>>]
          /\ share \in Kept
          /\ retirement_text[<<heap[retired].title, heap[retired].description>>]
          /\ retired \notin Kept

\* the count the claim requires of n keywords
Required(n) == IF n <= 2 THEN 1 ELSE (n + 1) \div 2

\* C15: with n >= 1 keywords, filter_properties requires 1 match for
\* n <= 2 and ceil(n / 2) for n >= 3 (1, 1, 2, 2, 3 for n = 1..5) and drops
\* a record exactly when fewer of the keywords match its text.
C15_KeywordGate ==
    /\ [n \in 1..5 |-> min_required(n)] = <<1, 1, 2, 2, 3>>
    /\ (Filtered /\ Asked(filters, "keywords")) =>
          LET k == filters["keywords"][1]
              n == Len(keywords_of[k])
          IN  /\ n >= 1
              /\ \A id \in Handed :
                    id \notin Kept <=>
                        matches_of[<<k, heap[id].title, heap[id].address,
                                     heap[id].description>>] < Required(n)

\* of five keywords, a record matching two was dropped and a record
\* matching three was kept
C15_Witness ==
    /\ Filtered /\ Asked(filters, "keywords")
    /\ Len(keywords_of[filters["keywords"][1]]) = 5
    /\ \E two, three \in Handed :
          /\ matches_of[<<filters["keywords"][1], heap[two].title,
                          heap[two].address, heap[two].description>>] = 2
          /\ two \notin Kept
          /\ matches_of[<<filters["keywords"][1], heap[three].title,
                          heap[three].address, heap[three].description>>] = 3
          /\ three \in Kept

\* C16 as claimed: a second call with the empty filters on the list the
\* first call returned returns that list unchanged, in the same order.
C16_RerunUnchanged ==
    rerun => filtered = properties

\* C16 as amended: the second call returns the same records, none dropped,
\* sorted on the scores of the empty filters; the order is that of the
\* list handed exactly when those scores do not increase along it.
C16_RerunKeepsRecords ==
    rerun =>
        /\ Len(filtered) = Len(properties)
        /\ Range(filtered) = Range(properties)
        /\ \A id \in Range(filtered) : heap[id].match_score # None
        /\ (filtered = properties) <=>
              \A i \in 1..(Len(properties) - 1) :
                  FracLeq(heap[properties[i + 1]].match_score[1],
                          heap[properties[i]].match_score[1])

\* a second call returned the records of a list of three in another order
C16_Witness ==
    /\ rerun
    /\ Len(properties) = 3
    /\ Range(filtered) = Range(properties)
    /\ filtered # properties

\* the text of the extractions, and what an extractor returned
Text == all_text[1]
Extracting == extracted # NoExtractors /\ all_text # None
Value(result) == result[2]

\* texts whose only mention of a garden (a balcony) is a negative phrase
GardenDenied == { "no garden", "Flat without garden", "no outdoor space" }
BalconyDenied == { "no balcony", "without balcony, with patio" }

\* C17: _extract_garden returns false for "no garden" and for every text
\* whose only mention of a garden is a negative phrase, and
\* _extract_balcony returns false for "no balcony" / "without balcony".
C17_NegativeOnly ==
    Extracting =>
        /\ (Text \in GardenDenied /\ extracted.has_garden # Pending)
              => extracted.has_garden = Returned(Some(FALSE))
        /\ (Text \in BalconyDenied /\ extracted.has_balcony # Pending)
              => extracted.has_balcony = Returned(Some(FALSE))

\* a positive (negative) indicator of the list is found in the text
Positive(indicators) == \E phrase \in indicators : SearchWord(phrase, Lower(Text))
Negative(indicators) == \E phrase \in indicators : Contains(Lower(Text), phrase)

\* C18: _extract_garden and _extract_balcony return true for every text
\* with a positive indicator, a negative indicator in the text or not, and
\* unset, not false, for every text that matches neither list.
C18_PositiveFirst ==
    Extracting =>
        /\ extracted.has_garden # Pending =>
              /\ Positive(garden_indicators)
                    => extracted.has_garden = Returned(Some(TRUE))
              /\ (~Positive(garden_indicators) /\ ~Negative(no_garden_indicators))
                    => extracted.has_garden = Returned(None)
        /\ extracted.has_balcony # Pending =>
              /\ Positive(balcony_indicators)
                    => extracted.has_balcony = Returned(Some(TRUE))
              /\ (~Positive(balcony_indicators) /\ ~Negative(no_balcony_indicators))
                    => extracted.has_balcony = Returned(None)

\* "no garden but has a terrace" has a negative and a positive garden
\* phrase and gave true
C18_Witness ==
    /\ Extracting
    /\ Text = "no garden but has a terrace"
    /\ Negative(no_garden_indicators)
    /\ Positive(garden_indicators)
    /\ extracted.has_garden = Returned(Some(TRUE))

\* the price the claim describes: the amount of the first pattern with a
\* reasonable value, converted when that pattern is the weekly one
RECURSIVE PriceByPattern(_, _)
PriceByPattern(text, n) ==
    IF n > Len(price_patterns) THEN None
    ELSE LET match == re_search(text, price_patterns[n])
             price_str == RemoveCommas(match[1])
             price == IF price_patterns[n] = weekly_qualifiers
                      THEN Monthly(ToNumber(price_str))
                      ELSE Num(ToNumber(price_str))
         IN  IF match = None THEN PriceByPattern(text, n + 1)
             ELSE IF price_str = "" THEN PriceByPattern(text, n + 1)
             ELSE IF Reasonable(price) THEN Some(price)
             ELSE PriceByPattern(text, n + 1)

\* C19: _extract_price multiplies the amount by 52 / 12 exactly when the
\* pattern that matched is the weekly one; an amount matched by the monthly
\* or by the bare pattern is returned as it is, whatever else the text holds.
C19_WeeklyPatternOnly ==
    (Extracting /\ extracted.price # Pending) =>
        extracted.price = Returned(IF Text = "" THEN None ELSE PriceByPattern(Text, 1))

\* the currency amounts of a text, a weekly one as its monthly equivalent
Amounts(text) ==
    { IF MatchAt(text, i, weekly_qualifiers) # None
      THEN Monthly(ToNumber(RemoveCommas(MatchAt(text, i, {})[1])))
      ELSE Num(ToNumber(RemoveCommas(MatchAt(text, i, {})[1]))) :
      i \in { j \in 1..Len(text) :
                 /\ MatchAt(text, j, {}) # None
                 /\ RemoveCommas(MatchAt(text, j, {})[1]) # "" } }

\* C20: every value _extract_price returns is in [100, 10,000,000]; a text
\* all of whose currency amounts are outside that range gives unset; "£50"
\* and "£99,999,999" give unset, "£1,200 pcm" 1200 and "£300 pw" 1300.
C20_PriceReasonable ==
    (Extracting /\ extracted.price # Pending) =>
        /\ Value(extracted.price) # None => Reasonable(Value(extracted.price)[1])
        /\ (Amounts(Text) # {} /\ \A amount \in Amounts(Text) : ~Reasonable(amount))
              => extracted.price = Returned(None)
        /\ Text \in {"£50", "£99,999,999"} => extracted.price = Returned(None)
        /\ Text = "£1,200 pcm" => extracted.price = Returned(Some(Num(1200)))
        /\ Text = "£300 pw" => extracted.price = Returned(Some(Num(1300)))

\* the direct call of _fuzzy_match_keyword has returned
Matched == fuzzy # None /\ fuzzy[1].result # Pending

\* C21 as claimed: _fuzzy_match_keyword("it", "kit") returns false; a keyword
\* of at most three characters is not found inside a longer word.
C21_ShortNotInsideWord ==
    (Matched /\ fuzzy[1].keyword = "it" /\ fuzzy[1].text = "kit")
        => fuzzy[1].result = Returned(FALSE)

\* C21 as amended: for a keyword of at most three characters
\* _fuzzy_match_keyword returns whether the keyword is a substring of the
\* text, inside a longer word or not, and "it" against "kit" gives true.
C21_ShortIsSubstring ==
    Matched =>
        /\ Len(fuzzy[1].keyword) <= 3 =>
              fuzzy[1].result = Returned(Contains(fuzzy[1].text, fuzzy[1].keyword))
        /\ (fuzzy[1].keyword = "it" /\ fuzzy[1].text = "kit")
              => fuzzy[1].result = Returned(TRUE)

\* "it" against "kit" has returned true
C21_Witness ==
    /\ Matched
    /\ fuzzy[1].keyword = "it"
    /\ fuzzy[1].text = "kit"
    /\ fuzzy[1].result = Returned(TRUE)

\* the extractors, which return an Optional, and the classifiers, which
\* return a bool
Extractors == { "price", "bedrooms", "bathrooms", "has_garden", "has_balcony", "postcode" }
Classifiers == { "is_student", "is_house_share", "is_retirement" }

\* C22: given None or the empty string, every extractor returns unset and
\* every classifier returns false, and none raises.
C22_TotalOnNoText ==
    (extracted # NoExtractors /\ ~Truthy(all_text)) =>
        /\ \A name \in Extractors :
              extracted[name] \in {Pending, Returned(None)}
        /\ \A name \in Classifiers :
              extracted[name] \in {Pending, Returned(FALSE)}

\* every extractor and classifier has returned for the text None
C22_Witness ==
    /\ all_text = None
    /\ \A name \in Extractors : extracted[name] = Returned(None)
    /\ \A name \in Classifiers : extracted[name] = Returned(FALSE)

\* C23: the description stored in an assembled Property is at most 500
\* characters long, an empty description with a long title included, and
\* so is the description to_dict emits.
C23_DescriptionBounded ==
    /\ \A id \in DOMAIN heap : Len(heap[id].description) <= 500
    /\ prop_dict # None => Len(prop_dict[1].description) <= 500

\* the keys of the dict to_dict builds
ToDictKeys ==
    { "title", "price", "address", "property_type", "bedrooms", "bathrooms",
      "area_sqft", "description", "url", "source", "listed_date", "location",
      "postcode", "has_garden", "has_balcony", "image_url", "match_score",
      "scraped_at" }

\* C24: to_dict emits the same fixed set of keys whatever Optional fields are
\* unset, before and after filter_properties has run; an unset field
\* appears under its key with the value None.
C24_FixedKeys ==
    prop_dict # None =>
        /\ DOMAIN prop_dict[1] = ToDictKeys
        /\ \E id \in DOMAIN heap :
              \A key \in OptionalFields \ {"match_score"} :
                  prop_dict[1][key] = heap[id][key]
        /\ calls = 0 => prop_dict[1].match_score = None

\* to_dict has run after filter_properties set the match_score, on a
\* Property with no bathrooms, no image and no postcode
C24_Witness ==
    /\ prop_dict # None
    /\ calls > 0
    /\ prop_dict[1].match_score # None
    /\ prop_dict[1].bathrooms = None
    /\ prop_dict[1].image_url = None
    /\ prop_dict[1].postcode = None
    /\ prop_dict[1].area_sqft = None

\* a Property with its match_score taken away
Unscored(p) == [p EXCEPT !.match_score = None]

\* C25: a filter_properties call leaves the list handed to it as it was
\* (length, members, order), is handed and leaves one of the query dicts,
\* and changes no field of any record but match_score; a
\* calculate_match_score call changes neither its record nor its query.
C25_OnlyMatchScore ==
    [][ /\ properties' = properties
        /\ DOMAIN heap' = DOMAIN heap
        /\ \A id \in DOMAIN heap : Unscored(heap'[id]) = Unscored(heap[id])
        /\ calls' # calls => filters' \in FilterQueries
        /\ prop' = prop
        /\ score' # score => filters' = filters ]_vars

\* a second call on a list of three returned fewer records than it was
\* handed, in another order, and records of the list carry a score
C25_Witness ==
    /\ calls = 2
    /\ Len(properties) = 3
    /\ Len(filtered) = 2
    /\ filtered[1] = properties[3]
    /\ \A n \in 1..Len(filtered) : heap[filtered[n]].match_score # None

\* C26: every record filter_properties returns passes every gate of the
\* filters and carries the score calculate_match_score gives it under
\* them; when the filters give min_bedrooms its bedrooms section added 15
\* or 20, and when they give has_garden as false its garden section added 0.
C26_SurvivorsScored ==
    Filtered =>
        \A id \in Kept :
            /\ PassesGates(heap[id], filters)
            /\ heap[id].match_score = Some(calculate_match_score(heap[id], filters))
            /\ Asked(filters, "min_bedrooms")
                  => BedroomsScore(heap[id], filters) \in {Num(15), Num(20)}
            /\ (Given_(filters, "has_garden") /\ filters["has_garden"] = Some(FALSE))
                  => GardenScore(heap[id], filters) = Num(0)

\* under min_bedrooms = 2 alone a call returned a record whose bedrooms
\* section added 20 and one whose bedrooms section added 15
C26_Witness ==
    /\ Filtered
    /\ filters = [min_bedrooms |-> Some(2)]
    /\ \E id, other \in Kept :
          /\ BedroomsScore(heap[id], filters) = Num(20)
          /\ BedroomsScore(heap[other], filters) = Num(15)

\* C27: a filter_properties call on the list the call before it returned,
\* with the filters of that call, returns the same records in the same
\* order and leaves every match_score as it was.
C27_Idempotent ==
    [][ (rerun' /\ filters' = filters) =>
            /\ filtered' = filtered
            /\ \A id \in DOMAIN heap : heap'[id].match_score = heap[id].match_score ]_vars

\* a second call under filters that are not empty returned the three
\* records it was handed, two of them of equal score
C27_Witness ==
    /\ rerun
    /\ filters # <<>>
    /\ Len(filtered) = 3
    /\ filtered = properties
    /\ heap[filtered[1]].match_score # heap[filtered[3]].match_score
    /\ \E n \in 1..2 : heap[filtered[n]].match_score = heap[filtered[n + 1]].match_score


\* C28: under filters that give a key with the value None,
\* filter_properties does not raise, and returns the list and assigns the
\* scores it does under the filters with that key removed.
C28_NoneAsOmitted ==
    [][ calls' # calls =>
            LET loop == FilterLoop(heap, properties, filters', 1, <<>>)
                omitted == filter_properties(heap, properties, WithoutNone(filters'))
            IN  /\ ~loop.raised
                /\ filtered' = omitted.result
                /\ heap' = omitted.heap ]_vars

-----------------------------------------------------------------------------
(* C29: when requests to POST /api/run-trawler overlap, the main.py of     *)
(* each background run loads the search parameters of its own request: no  *)
(* run loads what another request wrote to temp_config.json, and no run    *)
(* falls back to the built-in defaults because the file is missing.        *)
C29_OwnParameters ==
    \A r \in DOMAIN threads :
        /\ threads[r].config.how # "defaults"
        /\ threads[r].config.how = "loaded"
               => threads[r].config.config = temp_config(requests[r])

-----------------------------------------------------------------------------
FilterKeys ==
    { "min_bedrooms", "max_bedrooms", "min_bathrooms", "max_bathrooms",
      "has_garden", "has_balcony", "min_price", "max_price", "keywords" }

\* the ids of a list are scored, by non-increasing score
ScoredAndSorted(ids) ==
    /\ \A n \in 1..Len(ids) : heap[ids[n]].match_score # None
    /\ \A n \in 1..(Len(ids) - 1) :
           FracLeq(heap[ids[n + 1]].match_score[1], heap[ids[n]].match_score[1])

\* the config gives None for the three exclude_* keys and no filter value
NoFilterValue(search_params) ==
    /\ \A k \in ExcludeKeys : k \in DOMAIN search_params /\ search_params[k] = None
    /\ \A k \in FilterKeys : Get(search_params, k, None) = None

(* C30 as stated: whatever the configuration, the filters dict main()       *)
(* builds holds the three exclude_* keys, and every record main() passes   *)
(* to storage has a match_score that is not None, the list being in        *)
(* non-increasing match_score order.                                       *)
C30_SavedAlwaysScored ==
    saved # None =>
        /\ ExcludeKeys \subseteq DOMAIN filters
        /\ ScoredAndSorted(saved[1])

(* C30: the filters dict main() builds is empty exactly when the config    *)
(* gives None for the three exclude_* keys and no value for any other      *)
(* filter key; main() hands scrape_all that dict, or None when it is       *)
(* empty, and hands storage the list scrape_all returned unless it is      *)
(* empty.  scrape_all handed a non-empty dict returns the records that     *)
(* pass, each with a match_score, by non-increasing match_score; handed    *)
(* None or an empty dict it returns the scraped list as it is, in scrape   *)
(* order and with no match_score.                                          *)
C30_ScoredIffFiltered ==
    scrape_filters # NotCalled =>
        /\ config # None =>
               /\ (filters = <<>>) <=> NoFilterValue(config[1])
               /\ scrape_filters[2] = IF filters = <<>> THEN None ELSE Some(filters)
               /\ IF scrape_allRaised(Pool, properties, scrape_filters[2])
                  THEN saved = None
                  ELSE saved = IF filtered = <<>> THEN None ELSE Some(filtered)
        /\ IF TruthyDict(scrape_filters[2])
           THEN ~scrape_allRaised(Pool, properties, scrape_filters[2])
                    => ScoredAndSorted(filtered)
           ELSE /\ filtered = properties
                /\ \A n \in 1..Len(properties) : heap[properties[n]].match_score = None

\* main() saved two or more records it had filtered, with different scores
C30_Witness ==
    /\ config # None
    /\ filters # <<>>
    /\ saved # None
    /\ Len(saved[1]) >= 2
    /\ heap[saved[1][1]].match_score # heap[saved[1][Len(saved[1])]].match_score

====
